---- MODULE Spec2Model ----
(***************************************************************************)
(* Kleisli arrows of kleisli-ts: the tagged arrow representation           *)
(* (Pure / Impure / Compose), its interpreter `run`, the primitive         *)
(* constructors and the composition combinators with their fusion rule.    *)
(*                                                                         *)
(* An arrow is modelled as data.  The function held by an Impure arrow     *)
(* (`_run`) is a term evaluated by RawEval, which yields either a returned *)
(* value or a thrown JavaScript value; the function held by a Pure arrow   *)
(* is a term evaluated by PureEval, which yields a wrapped result.  Every  *)
(* call of a caller-supplied function is appended to a trace, so that the  *)
(* order and number of invocations can be stated.                          *)
(*                                                                         *)
(* Spec covers the constructors and the sequential combinators, SpecLoop  *)
(* whileDo, SpecBranch the branching combinators (switchK, left, right,   *)
(* test, ifThenElse), SpecLaws the functor and monad laws, SpecShape the  *)
(* pair and effect combinators, SpecUnsafe the unsafe extraction and      *)
(* SpecSteps the runs of one whileDo arrow taken call by call by several  *)
(* callers.                                                                *)
(***************************************************************************)
EXTENDS Integers, Sequences, FiniteSets, TLC

VARIABLES lhs, rhs, cond, arrow, opName, input, variant, outcome, callers

vars == <<lhs, rhs, cond, arrow, opName, input, variant, outcome, callers>>

\* Largest plain value fed to and returned by the caller-supplied functions.
MaxVal == 1

Val == 0..MaxVal

\* Largest value a loop counts to.
MaxCount == 3

Count == 0..MaxCount

\* Deepest nesting of combinators an arrow is built to.
MaxNesting == 2

\* Domain errors (values of type E) and native faults (JavaScript Errors).
Err == {"e1", "e2"}
Fault == {"x1", "x2"}

None == [tag |-> "None"]

-----------------------------------------------------------------------------
(* Results of evaluating JavaScript code: a returned value or a thrown one. *)

(* k: what happened; v: the value returned; cls, e: the class of the thrown  *)
(* value ("Error" for a native fault, "KleisliIOError" for the wrapper) and *)
(* what it carries; tr: the calls of caller-supplied functions so far.      *)
Ret(v, tr) == [k |-> "ret", v |-> v, cls |-> "", e |-> "", tr |-> tr]
Thrown(cls, e, tr) == [k |-> "throw", v |-> 0, cls |-> cls, e |-> e, tr |-> tr]

\* new KleisliIOError(e): the internal carrier of a domain error.
KleisliIOError(e, tr) == Thrown("KleisliIOError", e, tr)

(* Wrapped results in the effect context (fp-ts Either / IOEither):        *)
(* "right" is success, "left" is failure; "throw" is a fault that escaped  *)
(* the call instead of producing a wrapped result.                         *)
MOf(v, tr) == [k |-> "right", v |-> v, cls |-> "", e |-> "", tr |-> tr]
MThrowError(e, tr) == [k |-> "left", v |-> 0, cls |-> "", e |-> e, tr |-> tr]

-----------------------------------------------------------------------------
(* The trace: <<name, "call", a>> is a call of the caller-supplied function *)
(* `name` on a; <<name, "catch", x>> is a call of the catcher attached to   *)
(* that function on the fault x.                                            *)
HasCall(tr, name) == \E i \in 1..Len(tr) : tr[i][1] = name /\ tr[i][2] = "call"
HasCatch(tr, name) == \E i \in 1..Len(tr) : tr[i][1] = name /\ tr[i][2] = "catch"

(* Caller-supplied functions.  A plain function is a table from Val to a   *)
(* returned value or a raised native fault; library lambdas ((x) => x,     *)
(* () => b, ([, b]) => b) are not logged in the trace.                     *)

Inc(a) == (a + 1) % (MaxVal + 1)

PlainTbl(base, t, x) ==
  [a \in Val |->
     IF a = t THEN [k |-> "throw", v |-> 0, e |-> x]
     ELSE [k |-> "ret", v |-> IF base = "inc" THEN Inc(a) ELSE 0, e |-> ""]]

\* t = -1: the function never raises.
PlainFns(name) ==
  {[name |-> name, kind |-> "tbl", tbl |-> PlainTbl(base, -1, "x1")] : base \in {"inc", "zero"}}
  \cup {[name |-> name, kind |-> "tbl", tbl |-> PlainTbl(base, t, x)] :
          base \in {"inc"}, t \in Val, x \in Fault}

(* Values of fp-ts Either handed to and returned by the branching         *)
(* combinators.                                                             *)
eitherLeft(x) == [side |-> "left", x |-> x]
eitherRight(x) == [side |-> "right", x |-> x]

\* The lambda of test with its two cases exchanged.
TestLambdaFlipped(c, a) == IF c THEN eitherRight(a) ELSE eitherLeft(a)

\* ([c, a]) => c ? eitherLeft(a) : eitherRight(a)
TestLambda(c, a) == IF c THEN eitherLeft(a) ELSE eitherRight(a)

LibTest == [name |-> "lib", kind |-> "test"]
LibId == [name |-> "lib", kind |-> "id"]
LibConst(c) == [name |-> "lib", kind |-> "const", c |-> c]
LibSnd == [name |-> "lib", kind |-> "snd"]
LibFst == [name |-> "lib", kind |-> "fst"]
LibSwap == [name |-> "lib", kind |-> "swap"]

\* void 0, the value toVoid() replaces a result with.
Undefined == 0 - 1

\* flow(f, g) of fp-ts: x => g(f(x)).
Flow(f, g) == [name |-> "lib", kind |-> "flow", first |-> f, second |-> g]

\* A call f(a) of a caller-supplied function given by its table.
ApplyTbl(fn, a, tr) ==
  LET tr1 == Append(tr, <<fn.name, "call", a>>)
  IN IF fn.tbl[a].k = "ret" THEN Ret(fn.tbl[a].v, tr1)
     ELSE Thrown("Error", fn.tbl[a].e, tr1)

\* A call f(a) of a function value.
Apply(fn, a, tr) ==
  LET tr1 == IF fn.name = "lib" THEN tr ELSE Append(tr, <<fn.name, "call", a>>)
  IN CASE fn.kind = "id" -> Ret(a, tr1)
       [] fn.kind = "const" -> Ret(fn.c, tr1)
       [] fn.kind = "snd" -> Ret(a[2], tr1)
       [] fn.kind = "fst" -> Ret(a[1], tr1)
       [] fn.kind = "swap" -> Ret(<<a[2], a[1]>>, tr1)
       [] fn.kind = "test" -> Ret(TestLambda(a[1], a[2]), tr1)
       [] fn.kind = "flow" ->
            LET o1 == ApplyTbl(fn.first, a, tr)
            IN IF o1.k = "throw" THEN o1 ELSE ApplyTbl(fn.second, o1.v, o1.tr)
       [] fn.kind = "pair" -> Ret(a, tr1)
       [] fn.kind = "sum" -> Ret((a[1] + a[2]) % (MaxVal + 1), tr1)
       [] fn.kind = "tbl" ->
            IF fn.tbl[a].k = "ret" THEN Ret(fn.tbl[a].v, tr1)
            ELSE Thrown("Error", fn.tbl[a].e, tr1)

\* Functions handed to zipWith: they receive the pair of both results.
ZipFns == {[name |-> "f", kind |-> "pair"], [name |-> "f", kind |-> "sum"]}

(* Functions handed to pure(): they return a wrapped result themselves.    *)
PureTbl(t, e) ==
  [a \in Val |->
     IF a = t THEN [k |-> "left", v |-> 0, e |-> e]
     ELSE [k |-> "right", v |-> Inc(a), e |-> ""]]

PureFns(name) ==
  {[name |-> name, tbl |-> PureTbl(-1, "e1")]}
  \cup {[name |-> name, tbl |-> PureTbl(t, e)] : t \in Val, e \in Err}

ApplyPure(fn, a, tr) ==
  [k |-> fn.tbl[a].k, v |-> fn.tbl[a].v, cls |-> "", e |-> fn.tbl[a].e,
   tr |-> Append(tr, <<fn.name, "call", a>>)]

(* Functions for loops, over Count.  A condition is n < t ("lt") or       *)
(* n !== t ("ne") and may raise the fault x on the value r; a body is n + 1 *)
(* ("inc") or n - 1 ("dec"), wrapping around, and may raise x on r.  Every  *)
(* condition is false on some value and every body visits all values, so   *)
(* each loop ends.                                                          *)
IncC(n) == (n + 1) % (MaxCount + 1)
DecC(n) == (n + MaxCount) % (MaxCount + 1)

CondTbl(base, t, r, x) ==
  [n \in Count |->
     IF n = r THEN [k |-> "throw", v |-> FALSE, e |-> x]
     ELSE [k |-> "ret", v |-> IF base = "lt" THEN n < t ELSE n # t, e |-> ""]]

CondFns ==
  {[name |-> "c", kind |-> "tbl", tbl |-> CondTbl(base, t, -1, "x1")] :
     base \in {"lt", "ne"}, t \in Count}
  \cup {[name |-> "c", kind |-> "tbl", tbl |-> CondTbl("lt", MaxCount, r, "x1")] : r \in Count}

BodyTbl(base, r, x) ==
  [n \in Count |->
     IF n = r THEN [k |-> "throw", v |-> 0, e |-> x]
     ELSE [k |-> "ret", v |-> IF base = "inc" THEN IncC(n) ELSE DecC(n), e |-> ""]]

BodyFns ==
  {[name |-> "l", kind |-> "tbl", tbl |-> BodyTbl(base, -1, "x1")] : base \in {"inc", "dec"}}
  \cup {[name |-> "l", kind |-> "tbl", tbl |-> BodyTbl("inc", r, "x2")] : r \in Count}

\* The same functions written for pure(): they return a wrapped result.
PureCondTbl(base, t, r, e) ==
  [n \in Count |->
     IF n = r THEN [k |-> "left", v |-> FALSE, e |-> e]
     ELSE [k |-> "right", v |-> IF base = "lt" THEN n < t ELSE n # t, e |-> ""]]

PureCondFns ==
  {[name |-> "c", tbl |-> PureCondTbl(base, t, -1, "e1")] : base \in {"lt", "ne"}, t \in Count}
  \cup {[name |-> "c", tbl |-> PureCondTbl("lt", MaxCount, r, "e1")] : r \in Count}

PureBodyTbl(base, r, e) ==
  [n \in Count |->
     IF n = r THEN [k |-> "left", v |-> 0, e |-> e]
     ELSE [k |-> "right", v |-> IF base = "inc" THEN IncC(n) ELSE DecC(n), e |-> ""]]

PureBodyFns ==
  {[name |-> "l", tbl |-> PureBodyTbl(base, -1, "e2")] : base \in {"inc", "dec"}}
  \cup {[name |-> "l", tbl |-> PureBodyTbl("inc", r, "e2")] : r \in Count}

(* Catchers handed to impure().  The code calls the catcher up to twice on *)
(* the same fault, so a catcher is its answer to the first and to the      *)
(* second call: a value of E, undefined, or a fault it raises itself.      *)
CVal(e) == [k |-> "val", v |-> e]
CUndef == [k |-> "undef", v |-> "undefined"]
CRaise(y) == [k |-> "raise", v |-> y]

ToErr(x) == IF x = "x1" THEN "e1" ELSE "e2"

Stable(c) == [c1 |-> c, c2 |-> c]

classify == Stable([x \in Fault |-> CVal(ToErr(x))])
\* A voidCatcher that returns the fault instead of throwing it.
voidCatcherReturns == Stable([x \in Fault |-> CVal(x)])

\* const voidCatcher = (e: Error): never => { throw e; };
voidCatcher == Stable([x \in Fault |-> CRaise(x)])
partialCatcher == Stable([x \in Fault |-> IF x = "x1" THEN CVal("e1") ELSE CUndef])
raisingCatcher == Stable([x \in Fault |-> CRaise("y1")])
unstableCatcher ==
  [c1 |-> [x \in Fault |-> CVal("e1")],
   c2 |-> [x \in Fault |-> IF x = "x1" THEN CVal("e2") ELSE CUndef]]

Catchers == {classify, voidCatcher, partialCatcher, raisingCatcher, unstableCatcher}

\* identity of fp-ts/lib/function used as a catcher: the fault is the error.
id == Stable([x \in Fault |-> CVal(x)])

(* String(error), the message a KleisliError is constructed with: a fault  *)
(* is an Error object with a message, an error of E a string.               *)
String(e) == IF e \in Fault THEN "Error: " \o e ELSE e

-----------------------------------------------------------------------------
(* The arrow representation: class Pure, class Impure, class Compose.      *)

Pure(prun) == [tag |-> "Pure", run_ |-> prun]
Impure(rrun) == [tag |-> "Impure", run_ |-> rrun]
Compose(g, f) == [tag |-> "Compose", g |-> g, f |-> f]

isImpure(a) == a.tag = "Impure"

(* Primitive constructors.                                                  *)
pure(fn) == Pure([t |-> "pfn", fn |-> fn])

impure(catcher, fn) == Impure([t |-> "catch", catcher |-> catcher, fn |-> fn])

impureVoid(fn) == impure(voidCatcher, fn)

liftK(fn) == Impure([t |-> "fn", fn |-> fn])

point(b) == liftK(LibConst(b))

\* of ignoring its argument: the arrow returns its input.
ofReturnsInput(b) == liftK(LibId)

of(b) == liftK(LibConst(b))

\* fail throwing e itself, not wrapped as a domain error.
failUnwrapped(e) == Impure([t |-> "raise", cls |-> "Error", e |-> e])

\* () => { throw new KleisliIOError(e); }
fail(e) == Impure([t |-> "raise", cls |-> "KleisliIOError", e |-> e])

identity == liftK(LibId)

snd == liftK(LibSnd)

fst == liftK(LibFst)

\* swap returning the pair as it is.
swapKeepsOrder == liftK(LibId)

\* swap = liftK(([a, b]) => [b, a])
swap == liftK(LibSwap)

(* chain(fa, f): f is a caller-supplied function from fa's result to an    *)
(* arrow, given as a name and a table of arrows.                            *)
chain(fa, f) == Pure([t |-> "chain", fa |-> fa, f |-> f])

\* The method KleisliIO.chain: the same arrow, built from `this`.
chainMethod(this, f) == Pure([t |-> "chain", fa |-> this, f |-> f])

\* chain piping fa's result into the produced arrow, as andThen does.
ChainArgPiped(a, b) == b

\* f(b).run(a): the arrow produced by f is run on the original input.
ChainArg(a, b) == a

\* composeK applying the operands in the wrong order when it fuses.
composeKSwapped(second, first) ==
  IF isImpure(second) /\ isImpure(first)
  THEN Impure([t |-> "comp", g |-> first.run_, f |-> second.run_])
  ELSE Compose(second, first)

\* composeK without the fusion rule.
composeKNoFuse(second, first) == Compose(second, first)

(* composeK(second, first) and its fusion rule; compose(g, f) of fp-ts is  *)
(* x => g(f(x)).                                                            *)
composeK(second, first) ==
  IF isImpure(second) /\ isImpure(first)
  THEN Impure([t |-> "comp", g |-> second.run_, f |-> first.run_])
  ELSE Compose(second, first)

(* composeK of BiKleisli: flow(first._run, second._run) is                 *)
(* x => second._run(first._run(x)).                                         *)
composeKBi(second, first) ==
  IF isImpure(second) /\ isImpure(first)
  THEN Impure([t |-> "comp", g |-> second.run_, f |-> first.run_])
  ELSE Compose(second, first)

pipeK(first, second) == composeK(second, first)

andThen(this, that) == composeK(that, this)

\* map composing the function in front of the arrow.
mapBefore(this, f) == andThen(liftK(f), this)

\* this.map(f) = this.andThen(liftK(f))
map(this, f) == andThen(this, liftK(f))

\* zipWith sequencing r before l when it does not fuse.
zipWithUnfusedRightFirst(l, r, f) ==
  IF isImpure(l) /\ isImpure(r)
  THEN Impure([t |-> "zip", l |-> l.run_, r |-> r.run_, f |-> f])
  ELSE Pure([t |-> "zip", l |-> r, r |-> l, f |-> f])

\* zipWith evaluating the right arrow's function before the left one's.
zipWithRightFirst(l, r, f) ==
  IF isImpure(l) /\ isImpure(r)
  THEN Impure([t |-> "zip", l |-> r.run_, r |-> l.run_, f |-> f])
  ELSE Pure([t |-> "zip", l |-> l, r |-> r, f |-> f])

zipWith(l, r, f) ==
  IF isImpure(l) /\ isImpure(r)
  THEN Impure([t |-> "zip", l |-> l.run_, r |-> r.run_, f |-> f])
  ELSE Pure([t |-> "zip", l |-> l, r |-> r, f |-> f])

\* this.both(that) = zipWith(this, that)((x) => x)
both(this, that) == zipWith(this, that, LibId)

\* this.first() = this.both(identity())
first(this) == both(this, identity)

\* this.second() = identity().both(this)
second(this) == both(identity, this)

\* this.constant(c) = this.andThen(liftK(() => c))
constant(this, c) == andThen(this, liftK(LibConst(c)))

\* this.toVoid() = this.constant(void 0)
toVoid(this) == constant(this, Undefined)

\* asEffect keeping the result of the arrow instead of its input.
asEffectKeepsResult(this) == andThen(first(this), fst)

\* this.asEffect() = this.first().andThen(snd())
asEffect(this) == andThen(first(this), snd)

\* switchK running r on a left and l on a right.
switchKSwapped(l, r) ==
  IF isImpure(l) /\ isImpure(r)
  THEN Impure([t |-> "fold", l |-> r.run_, r |-> l.run_])
  ELSE Pure([t |-> "fold", l |-> r, r |-> l])

(* switchK(l, r): a.fold(al => l._run(al), ar => r._run(ar)) when both are *)
(* Impure, else pure(a => a.fold(al => l.run(al), ar => r.run(ar))).       *)
switchK(l, r) ==
  IF isImpure(l) /\ isImpure(r)
  THEN Impure([t |-> "fold", l |-> l.run_, r |-> r.run_])
  ELSE Pure([t |-> "fold", l |-> l, r |-> r])

(* switchK of BiKleisli: the unfused arrow runs l (r) on                   *)
(* W.extend(fac, () => a), the input's wrapping around the value folded.   *)
switchKBi(l, r) ==
  IF isImpure(l) /\ isImpure(r)
  THEN Impure([t |-> "fold", l |-> l.run_, r |-> r.run_])
  ELSE Pure([t |-> "fold", l |-> l, r |-> r])

\* this.join(that) = switchK(this, that)
join(this, that) == switchK(this, that)

\* left applying k to the right slot.
leftOnRightSlot(k) ==
  IF isImpure(k)
  THEN Impure([t |-> "right", k |-> k.run_])
  ELSE Pure([t |-> "right", k |-> k])

left(k) ==
  IF isImpure(k)
  THEN Impure([t |-> "left", k |-> k.run_])
  ELSE Pure([t |-> "left", k |-> k])

right(k) ==
  IF isImpure(k)
  THEN Impure([t |-> "right", k |-> k.run_])
  ELSE Pure([t |-> "right", k |-> k])

\* test(cond) = cond.both(identity()).andThen(liftK(([c, a]) => ...))
test(cond_) == andThen(both(cond_, identity), liftK(LibTest))

\* ifThenElse with the two branches exchanged.
ifThenElseSwapped(cond_, then, else_) ==
  IF isImpure(cond_) /\ isImpure(then) /\ isImpure(else_)
  THEN Impure([t |-> "ite", cond |-> cond_.run_, then |-> else_.run_, else_ |-> then.run_])
  ELSE andThen(test(cond_), switchK(else_, then))

(* ifThenElse(cond)(then)(else_): a => cond._run(a) ? then._run(a) :       *)
(* else_._run(a) when all three are Impure, else                            *)
(* test(cond).andThen(switchK(then, else_)).                                *)
ifThenElse(cond_, then, else_) ==
  IF isImpure(cond_) /\ isImpure(then) /\ isImpure(else_)
  THEN Impure([t |-> "ite", cond |-> cond_.run_, then |-> then.run_, else_ |-> else_.run_])
  ELSE andThen(test(cond_), switchK(then, else_))

ifThen(cond_, then) == ifThenElse(cond_, then, identity)

(* whileDo of BiKleisli (and of BiKleisliIO): the fused loop is the same,  *)
(* the unfused arrow is                                                     *)
(*   pure(fa => M.chain(cond.run(fa),                                       *)
(*                      b => b ? body.run(fa) : M.of(W.extract(fa)))).      *)
whileDoBi(cond_, body) ==
  IF isImpure(cond_) /\ isImpure(body)
  THEN Impure([t |-> "while", cond |-> cond_.run_, body |-> body.run_])
  ELSE Pure([t |-> "loopBi", cond |-> cond_, body |-> body])

\* whileDo whose unfused arrow does not invoke the loop again.
whileDoRunsBodyOnce(cond_, body) == whileDoBi(cond_, body)

\* whileDo testing the condition once, as ifThen does.
whileDoAsIfThen(cond_, body) == ifThen(cond_, body)

(* whileDo(cond)(body): the imperative loop when both are Impure, else the *)
(* self-referential arrow                                                   *)
(*   loop = () => pure(a => M.chain(cond.run(a),                            *)
(*            b => b ? M.chain(body.run(a), loop().run) : M.of(a))).        *)
whileDo(cond_, body) ==
  IF isImpure(cond_) /\ isImpure(body)
  THEN Impure([t |-> "while", cond |-> cond_.run_, body |-> body.run_])
  ELSE Pure([t |-> "loop", cond |-> cond_, body |-> body])

-----------------------------------------------------------------------------
\* A catch block that throws the fault again without asking the catcher.
ImpureHandlerRethrows(catcher, name, x, tr) == Thrown(x.cls, x.e, tr)

(* The catch block of impure(): classify the fault x raised by f.  `name`  *)
(* is the name of f, under which the catcher's calls are logged.           *)
ImpureHandler(catcher, name, x, tr) ==
  LET tr1 == Append(tr, <<name, "catch", x.e>>)
      r1 == catcher.c1[x.e]
      tr2 == Append(tr1, <<name, "catch", x.e>>)
      r2 == catcher.c2[x.e]
  IN IF r1.k = "raise" THEN Thrown("Error", r1.v, tr1)
     ELSE IF r1.k = "undef" THEN Thrown(x.cls, x.e, tr1)
     ELSE IF r2.k = "raise" THEN Thrown("Error", r2.v, tr2)
     ELSE KleisliIOError(r2.v, tr2)

(* Evaluation of the function held by an Impure arrow (a call of `_run`).  *)
RECURSIVE RawEval(_, _, _)
RawEval(term, a, tr) ==
  CASE term.t = "fn" -> Apply(term.fn, a, tr)
    [] term.t = "raise" -> Thrown(term.cls, term.e, tr)
    [] term.t = "catch" ->
         LET o == Apply(term.fn, a, tr)
         IN IF o.k = "ret" THEN o ELSE ImpureHandler(term.catcher, term.fn.name, o, o.tr)
    [] term.t = "comp" ->
         LET o1 == RawEval(term.f, a, tr)
         IN IF o1.k = "throw" THEN o1 ELSE RawEval(term.g, o1.v, o1.tr)
    [] term.t = "zip" ->
         LET o1 == RawEval(term.l, a, tr)
         IN IF o1.k = "throw" THEN o1
            ELSE LET o2 == RawEval(term.r, a, o1.tr)
                 IN IF o2.k = "throw" THEN o2
                    ELSE Apply(term.f, <<o1.v, o2.v>>, o2.tr)
    [] term.t = "fold" ->
         IF a.side = "left" THEN RawEval(term.l, a.x, tr) ELSE RawEval(term.r, a.x, tr)
    [] term.t = "left" ->
         IF a.side = "left"
         THEN LET o == RawEval(term.k, a.x, tr)
              IN IF o.k = "throw" THEN o ELSE Ret(eitherLeft(o.v), o.tr)
         ELSE Ret(eitherRight(a.x), tr)
    [] term.t = "right" ->
         IF a.side = "left"
         THEN Ret(eitherLeft(a.x), tr)
         ELSE LET o == RawEval(term.k, a.x, tr)
              IN IF o.k = "throw" THEN o ELSE Ret(eitherRight(o.v), o.tr)
    [] term.t = "ite" ->
         LET c == RawEval(term.cond, a, tr)
         IN IF c.k = "throw" THEN c
            ELSE IF c.v THEN RawEval(term.then, a, c.tr)
                 ELSE RawEval(term.else_, a, c.tr)
    [] term.t = "while" ->
         LET c == RawEval(term.cond, a, tr)
         IN IF c.k = "throw" THEN c
            ELSE IF c.v
                 THEN LET b == RawEval(term.body, a, c.tr)
                      IN IF b.k = "throw" THEN b ELSE RawEval(term, b.v, b.tr)
                 ELSE Ret(a, c.tr)

(* Impure.run of the MonadThrow-generic KleisliIO: try { M.of(_run(a)) }   *)
(* catch: a KleisliIOError becomes M.throwError(e.error), anything else is *)
(* thrown again.                                                            *)
ImpureRun(o) ==
  IF o.k = "ret" THEN MOf(o.v, o.tr)
  ELSE IF o.cls = "KleisliIOError" THEN MThrowError(o.e, o.tr)
  ELSE o

(* Impure.run of the IOEither-specialised KleisliIO: tryCatch2v with an    *)
(* onError that unwraps a KleisliIOError and returns any other thrown      *)
(* value `as E`.                                                            *)
ImpureRunIE(o) ==
  IF o.k = "ret" THEN MOf(o.v, o.tr)
  ELSE IF o.cls = "KleisliIOError" THEN MThrowError(o.e, o.tr)
  ELSE MThrowError(o.e, o.tr)

(* Impure.run of BiKleisli: M.of(_run(W.extract(fa))), with no try/catch;  *)
(* W is taken to be the Identity comonad.                                   *)
ImpureRunBi(o) ==
  IF o.k = "ret" THEN MOf(o.v, o.tr) ELSE o

\* An Impure.run of Kleisli that catches the wrapper as KleisliIO does.
ImpureRunKCatches(o) == ImpureRun(o)

(* Impure.run of the single-monad Kleisli: const b = this._run(a); return  *)
(* this.M.of(b), with no try/catch.                                         *)
ImpureRunK(o) ==
  IF o.k = "ret" THEN MOf(o.v, o.tr) ELSE o

\* A chain that goes on after a failure.
MChainIgnoresFailure(ma) == ma.k \in {"right", "left"}

(* M.chain of the Either-shaped contexts: the continuation runs only on a  *)
(* success.                                                                 *)
MChainContinues(ma) == ma.k = "right"

(* run(a), for the generic variant ("MonadThrow", instantiated with Either *)
(* as in the test-suite) and the IOEither-specialised one ("IOEither",     *)
(* the result being what executing the returned IOEither gives).           *)
RECURSIVE Run(_, _, _, _)
RECURSIVE PureEval(_, _, _, _)
Run(va, arr, a, tr) ==
  CASE arr.tag = "Impure" ->
         CASE va = "IOEither" -> ImpureRunIE(RawEval(arr.run_, a, tr))
           [] va = "BiKleisli" -> ImpureRunBi(RawEval(arr.run_, a, tr))
           [] va = "Kleisli" -> ImpureRunK(RawEval(arr.run_, a, tr))
           [] OTHER -> ImpureRun(RawEval(arr.run_, a, tr))
    [] arr.tag = "Pure" -> PureEval(va, arr.run_, a, tr)
    [] arr.tag = "Compose" ->
         LET r1 == Run(va, arr.f, a, tr)
         IN IF MChainContinues(r1) THEN Run(va, arr.g, r1.v, r1.tr) ELSE r1

PureEval(va, term, a, tr) ==
  CASE term.t = "pfn" -> ApplyPure(term.fn, a, tr)
    [] term.t = "chain" ->
         LET r1 == Run(va, term.fa, a, tr)
         IN IF MChainContinues(r1)
            THEN Run(va, term.f.tbl[r1.v], ChainArg(a, r1.v),
                     IF term.f.name = "lib" THEN r1.tr
                     ELSE Append(r1.tr, <<term.f.name, "call", r1.v>>))
            ELSE r1
    [] term.t = "zip" ->
         LET r1 == Run(va, term.l, a, tr)
         IN IF ~MChainContinues(r1) THEN r1
            ELSE LET r2 == Run(va, term.r, a, r1.tr)
                 IN IF ~MChainContinues(r2) THEN r2
                    ELSE LET o == Apply(term.f, <<r1.v, r2.v>>, r2.tr)
                         IN IF o.k = "ret" THEN MOf(o.v, o.tr) ELSE o
    [] term.t = "fold" ->
         IF a.side = "left" THEN Run(va, term.l, a.x, tr) ELSE Run(va, term.r, a.x, tr)
    [] term.t = "left" ->
         IF a.side = "left"
         THEN LET r1 == Run(va, term.k, a.x, tr)
              IN IF r1.k = "right" THEN MOf(eitherLeft(r1.v), r1.tr) ELSE r1
         ELSE MOf(eitherRight(a.x), tr)
    [] term.t = "right" ->
         IF a.side = "left"
         THEN MOf(eitherLeft(a.x), tr)
         ELSE LET r1 == Run(va, term.k, a.x, tr)
              IN IF r1.k = "right" THEN MOf(eitherRight(r1.v), r1.tr) ELSE r1
    [] term.t = "loop" ->
         LET r1 == Run(va, term.cond, a, tr)
         IN IF ~MChainContinues(r1) THEN r1
            ELSE IF r1.v
                 THEN LET r2 == Run(va, term.body, a, r1.tr)
                      IN IF MChainContinues(r2)
                         THEN Run(va, Pure(term), r2.v, r2.tr)
                         ELSE r2
                 ELSE MOf(a, r1.tr)
    [] term.t = "loopBi" ->
         LET r1 == Run(va, term.cond, a, tr)
         IN IF ~MChainContinues(r1) THEN r1
            ELSE IF r1.v THEN Run(va, term.body, a, r1.tr)
                 ELSE MOf(a, r1.tr)

-----------------------------------------------------------------------------
(* The arrows the combinators are applied to, each with the constructor    *)
(* that built it (and, for fail, the error it was given).  The left        *)
(* operand's caller-supplied functions are named "l" in the trace, the     *)
(* right operand's "r".                                                     *)

Operand(c, p, a) == [ctor |-> c, p |-> p, arr |-> a]

LeftOperands ==
  {Operand("liftK", "", liftK(fn)) : fn \in PlainFns("l")}
  \cup {Operand("impure", "", impure(c, fn)) : c \in Catchers, fn \in PlainFns("l")}
  \cup {Operand("impureVoid", "", impureVoid(fn)) : fn \in PlainFns("l")}
  \cup {Operand("fail", e, fail(e)) : e \in Err}
  \cup {Operand("pure", "", pure(fn)) : fn \in PureFns("l")}
  \cup {Operand("composeK", "", composeK(liftK(fn), pure(pf))) :
          fn \in {[name |-> "l", kind |-> "tbl", tbl |-> PlainTbl("inc", -1, "x1")]},
          pf \in {[name |-> "l", tbl |-> PureTbl(0, "e2")]}}

RightOperands ==
  {liftK(fn) : fn \in PlainFns("r")}
  \cup {impure(classify, fn) : fn \in PlainFns("r")}
  \cup {fail("e2")}
  \cup {pure(fn) : fn \in PureFns("r")}
  \cup {composeK(pure(pf), liftK(fn)) :
          fn \in {[name |-> "r", kind |-> "tbl", tbl |-> PlainTbl("inc", -1, "x1")]},
          pf \in {[name |-> "r", tbl |-> PureTbl(0, "e2")]}}

(* Functions handed to chain: on b = t the produced arrow is fail("e2"),   *)
(* otherwise it is the right operand.                                       *)
ChainFns(that) ==
  {[name |-> "f", tbl |-> [b \in Val |-> IF b = t THEN fail("e2") ELSE that]] :
     t \in Val \cup {-1}}

NoOutcome == [k |-> "none", v |-> 0, cls |-> "", e |-> "", tr |-> <<>>]

(* The callers that run one arrow side by side.  Each run has its own       *)
(* position (pc), input (in), value in hand (a), trace and result.          *)
Caller == {"p", "q"}

IdleRun == [pc |-> "idle", va |-> "none", in |-> 0, a |-> 0, tr |-> <<>>, res |-> NoOutcome]

NoCallers == [i \in Caller |-> IdleRun]

Init ==
  /\ \E o \in LeftOperands : lhs = o
  /\ rhs \in RightOperands
  /\ cond = None
  /\ arrow = None
  /\ opName = "none"
  /\ input = 0
  /\ variant = "none"
  /\ outcome = NoOutcome
  /\ callers = NoCallers

Built(name, arr) ==
  /\ arrow' = arr
  /\ opName' = name
  /\ input' = 0
  /\ variant' = "none"
  /\ outcome' = NoOutcome
  /\ UNCHANGED <<lhs, rhs, cond, callers>>

\* The left operand on its own, as built by its constructor.
UseOperand == Built("operand", lhs.arr)

ComposeK == Built("composeK", composeK(rhs, lhs.arr))

ComposeKBi == Built("composeKBi", composeKBi(rhs, lhs.arr))

PipeK == Built("pipeK", pipeK(lhs.arr, rhs))

AndThen == Built("andThen", andThen(lhs.arr, rhs))

Chain == \E f \in ChainFns(rhs) : Built("chain", chain(lhs.arr, f))

ChainMethod == \E f \in ChainFns(rhs) : Built("chainMethod", chainMethod(lhs.arr, f))

ZipWith == \E f \in ZipFns : Built("zipWith", zipWith(lhs.arr, rhs, f))

Ran(va, a) ==
  /\ input' = a
  /\ variant' = va
  /\ outcome' = Run(va, arrow, a, <<>>)
  /\ UNCHANGED <<lhs, rhs, cond, arrow, opName, callers>>

\* arrow.run(a) of the MonadThrow-generic KleisliIO.
RunArrow == \E a \in Val : opName \notin {"none", "composeKBi"} /\ Ran("MonadThrow", a)

\* arrow.run(a).run() of the IOEither-specialised KleisliIO.
RunArrowIE == \E a \in Val : opName \notin {"none", "composeKBi"} /\ Ran("IOEither", a)

\* arrow.run(a) of BiKleisli.
RunArrowBi == \E a \in Val : opName = "composeKBi" /\ Ran("BiKleisli", a)

Next ==
  \/ UseOperand
  \/ ComposeK
  \/ ComposeKBi
  \/ PipeK
  \/ AndThen
  \/ Chain
  \/ ChainMethod
  \/ ZipWith
  \/ RunArrow
  \/ RunArrowIE
  \/ RunArrowBi

Spec == Init /\ [][Next]_vars

-----------------------------------------------------------------------------
(* Loops: whileDo(cond)(body), with `cond` the condition and `lhs` the     *)
(* body.  The condition's functions are named "c" in the trace.            *)

CondOperands ==
  {liftK(fn) : fn \in CondFns}
  \cup {impure(classify, fn) : fn \in CondFns}
  \cup {pure(pf) : pf \in PureCondFns}
  \cup {composeK(pure(pf), identity) : pf \in {[name |-> "c", tbl |-> PureCondTbl("lt", 2, -1, "e1")]}}

BodyOperands ==
  {Operand("liftK", "", liftK(fn)) : fn \in BodyFns}
  \cup {Operand("impure", "", impure(classify, fn)) : fn \in BodyFns}
  \cup {Operand("pure", "", pure(pf)) : pf \in PureBodyFns}
  \cup {Operand("composeK", "", composeK(pure(pf), identity)) :
          pf \in {[name |-> "l", tbl |-> PureBodyTbl("inc", -1, "e2")]}}

InitLoop ==
  /\ cond \in CondOperands
  /\ \E o \in BodyOperands : lhs = o
  /\ rhs = identity
  /\ arrow = None
  /\ opName = "none"
  /\ input = 0
  /\ variant = "none"
  /\ outcome = NoOutcome
  /\ callers = NoCallers

WhileDo == Built("whileDo", whileDo(cond, lhs.arr))

WhileDoBi == Built("whileDoBi", whileDoBi(cond, lhs.arr))

RunLoop == \E a \in Count : opName = "whileDo" /\ Ran("MonadThrow", a)

RunLoopIE == \E a \in Count : opName = "whileDo" /\ Ran("IOEither", a)

RunLoopBi == \E a \in Count : opName = "whileDoBi" /\ Ran("BiKleisli", a)

NextLoop ==
  \/ WhileDo
  \/ WhileDoBi
  \/ RunLoop
  \/ RunLoopIE
  \/ RunLoopBi

SpecLoop == InitLoop /\ [][NextLoop]_vars

-----------------------------------------------------------------------------
(* Branching: `cond` is the condition, `lhs` the then-branch (the left     *)
(* branch of switchK, the arrow lifted by left and right) and `rhs` the    *)
(* else-branch (the right branch of switchK).                               *)

BranchConds ==
  {liftK(fn) : fn \in {[name |-> "c", kind |-> "tbl", tbl |-> CondTbl("lt", 2, -1, "x1")],
                       [name |-> "c", kind |-> "tbl", tbl |-> CondTbl("lt", MaxCount, 0, "x1")]}}
  \cup {impure(classify, fn) :
          fn \in {[name |-> "c", kind |-> "tbl", tbl |-> CondTbl("ne", 1, -1, "x1")],
                  [name |-> "c", kind |-> "tbl", tbl |-> CondTbl("lt", MaxCount, 0, "x1")]}}
  \cup {pure(pf) : pf \in {[name |-> "c", tbl |-> PureCondTbl("ne", 1, -1, "e1")],
                           [name |-> "c", tbl |-> PureCondTbl("lt", MaxCount, 1, "e1")]}}
  \cup {composeK(pure(pf), identity) : pf \in {[name |-> "c", tbl |-> PureCondTbl("lt", 2, -1, "e1")]}}

ElseFns ==
  {[name |-> "r", kind |-> "tbl", tbl |-> BodyTbl("dec", -1, "x1")],
   [name |-> "r", kind |-> "tbl", tbl |-> BodyTbl("dec", 0, "x1")]}

ElseOperands ==
  {liftK(fn) : fn \in ElseFns}
  \cup {impure(classify, fn) : fn \in ElseFns}
  \cup {pure(pf) : pf \in {[name |-> "r", tbl |-> PureBodyTbl("dec", 1, "e1")]}}

EitherInputs == {eitherLeft(n) : n \in Count} \cup {eitherRight(n) : n \in Count}

InitBranch ==
  /\ cond \in BranchConds
  /\ \E o \in BodyOperands : lhs = o
  /\ rhs \in ElseOperands
  /\ arrow = None
  /\ opName = "none"
  /\ input = 0
  /\ variant = "none"
  /\ outcome = NoOutcome
  /\ callers = NoCallers

SwitchK == Built("switchK", switchK(lhs.arr, rhs))

SwitchKBi == Built("switchKBi", switchKBi(lhs.arr, rhs))

Join == Built("join", join(lhs.arr, rhs))

Left == Built("left", left(lhs.arr))

Right == Built("right", right(lhs.arr))

Test == Built("test", test(cond))

IfThenElse == Built("ifThenElse", ifThenElse(cond, lhs.arr, rhs))

IfThen == Built("ifThen", ifThen(cond, lhs.arr))

\* The arrows taking an Either, and those taking a plain value.
OnEither == {"switchK", "join", "left", "right"}
OnValue == {"test", "ifThenElse", "ifThen"}

RunBranch ==
  \/ \E a \in EitherInputs : opName \in OnEither /\ Ran("MonadThrow", a)
  \/ \E a \in Count : opName \in OnValue /\ Ran("MonadThrow", a)

RunBranchIE ==
  \/ \E a \in EitherInputs : opName \in OnEither /\ Ran("IOEither", a)
  \/ \E a \in Count : opName \in OnValue /\ Ran("IOEither", a)

RunBranchBi == \E a \in EitherInputs : opName = "switchKBi" /\ Ran("BiKleisli", a)

NextBranch ==
  \/ SwitchK
  \/ SwitchKBi
  \/ Join
  \/ Left
  \/ Right
  \/ Test
  \/ IfThenElse
  \/ IfThen
  \/ RunBranch
  \/ RunBranchIE
  \/ RunBranchBi

SpecBranch == InitBranch /\ [][NextBranch]_vars

-----------------------------------------------------------------------------
(* Laws: `lhs` is the arrow fa (or m) the laws are stated for, `rhs` the   *)
(* arrow the functions handed to chain return.                              *)

LawArrows ==
  {liftK([name |-> "r", kind |-> "tbl", tbl |-> PlainTbl("inc", -1, "x1")]),
   impure(classify, [name |-> "r", kind |-> "tbl", tbl |-> PlainTbl("inc", 0, "x1")]),
   pure([name |-> "r", tbl |-> PureTbl(MaxVal, "e2")])}

\* The functions f and g handed to map.
MapFs == PlainFns("f")

MapGs ==
  {[name |-> "g", kind |-> "tbl", tbl |-> PlainTbl("inc", -1, "x2")],
   [name |-> "g", kind |-> "tbl", tbl |-> PlainTbl("zero", -1, "x2")],
   [name |-> "g", kind |-> "tbl", tbl |-> PlainTbl("inc", 0, "x2")]}

\* K.of handed to chain as the function from a result to an arrow.
OfFn == [name |-> "lib", tbl |-> [b \in Val |-> of(b)]]

InitLaws ==
  /\ \E o \in LeftOperands : lhs = o
  /\ rhs \in LawArrows
  /\ cond = None
  /\ arrow = None
  /\ opName = "none"
  /\ input = 0
  /\ variant = "none"
  /\ outcome = NoOutcome
  /\ callers = NoCallers

\* fa.map(identity)
MapIdentity == Built("mapId", map(lhs.arr, LibId))

\* fa.map(f).map(g)
MapMap == \E f \in MapFs, g \in MapGs : Built("mapMap", map(map(lhs.arr, f), g))

\* of(b).chain(f)
OfChain == \E b \in Val, f \in ChainFns(rhs) : Built("ofChain", chainMethod(of(b), f))

\* m.chain(of)
ChainOf == Built("chainOf", chainMethod(lhs.arr, OfFn))

(* The second function of the associativity law: on b = t the produced     *)
(* arrow is fail("e1"), otherwise it lifts a function named "s".           *)
ChainGs ==
  {[name |-> "g",
    tbl |-> [b \in Val |->
               IF b = t THEN fail("e1")
               ELSE liftK([name |-> "s", kind |-> "tbl", tbl |-> PlainTbl("inc", -1, "x1")])]] :
     t \in Val \cup {-1}}

\* (y) => f(y).chain(g): a call of it is a call of f.
ChainThen(f, g) == [name |-> f.name, tbl |-> [y \in Val |-> chainMethod(f.tbl[y], g)]]

\* m.chain(f).chain(g)
ChainChain ==
  \E f \in ChainFns(rhs), g \in ChainGs :
    Built("chainChain", chainMethod(chainMethod(lhs.arr, f), g))

RunLaw == \E a \in Val : opName # "none" /\ Ran("MonadThrow", a)

RunLawIE == \E a \in Val : opName # "none" /\ Ran("IOEither", a)

NextLaws ==
  \/ MapIdentity
  \/ MapMap
  \/ OfChain
  \/ ChainOf
  \/ ChainChain
  \/ RunLaw
  \/ RunLawIE

SpecLaws == InitLaws /\ [][NextLaws]_vars

-----------------------------------------------------------------------------
(* Nested combinators over Impure operands: each step applies one          *)
(* combinator to the arrow built so far (at first the operand `lhs`) and   *)
(* to the operands `rhs` and `cond`.                                        *)

Max(m, n) == IF m > n THEN m ELSE n

\* The number of fused combinators nested in the function of an Impure arrow.
RECURSIVE Nesting(_)
Nesting(term) ==
  CASE term.t \in {"fn", "raise", "catch"} -> 0
    [] term.t = "comp" -> 1 + Max(Nesting(term.g), Nesting(term.f))
    [] term.t \in {"zip", "fold"} -> 1 + Max(Nesting(term.l), Nesting(term.r))
    [] term.t \in {"left", "right"} -> 1 + Nesting(term.k)
    [] term.t = "ite" ->
         1 + Max(Nesting(term.cond), Max(Nesting(term.then), Nesting(term.else_)))
    [] term.t = "while" -> 1 + Max(Nesting(term.cond), Nesting(term.body))

InitFusion ==
  /\ \E o \in {Operand("liftK", "", liftK([name |-> "l", kind |-> "tbl", tbl |-> PlainTbl("inc", -1, "x1")])),
               Operand("impure", "", impure(classify, [name |-> "l", kind |-> "tbl", tbl |-> PlainTbl("inc", 0, "x1")]))} :
       lhs = o
  /\ rhs \in {identity, fail("e2")}
  /\ cond = liftK([name |-> "c", kind |-> "tbl", tbl |-> CondTbl("lt", 1, -1, "x1")])
  /\ arrow = None
  /\ opName = "none"
  /\ input = 0
  /\ variant = "none"
  /\ outcome = NoOutcome
  /\ callers = NoCallers

\* The arrow built so far.
Acc == IF arrow = None THEN lhs.arr ELSE arrow

Nested(name, arr) ==
  /\ isImpure(Acc) => Nesting(Acc.run_) < MaxNesting
  /\ Built(name, arr)

NestComposeK ==
  \/ Nested("composeK", composeK(rhs, Acc))
  \/ Nested("composeK", composeK(Acc, rhs))

NestPipeK == Nested("pipeK", pipeK(Acc, rhs))

NestAndThen == Nested("andThen", andThen(Acc, rhs))

NestMap == \E f \in MapFs : Nested("map", map(Acc, f))

NestConstant == \E c \in Val : Nested("constant", constant(Acc, c))

NestSwitchK == Nested("switchK", switchK(Acc, rhs))

NestJoin == Nested("join", join(rhs, Acc))

NestZipWith == \E f \in ZipFns : Nested("zipWith", zipWith(Acc, rhs, f))

NestBoth == Nested("both", both(rhs, Acc))

NestFirst == Nested("first", first(Acc))

NestSecond == Nested("second", second(Acc))

NestAsEffect == Nested("asEffect", asEffect(Acc))

NestLeft == Nested("left", left(Acc))

NestRight == Nested("right", right(Acc))

NestTest == Nested("test", test(Acc))

NestIfThenElse ==
  \/ Nested("ifThenElse", ifThenElse(cond, Acc, rhs))
  \/ Nested("ifThenElse", ifThenElse(Acc, lhs.arr, rhs))

NestIfThen == Nested("ifThen", ifThen(cond, Acc))

NestWhileDo ==
  \/ Nested("whileDo", whileDo(cond, Acc))
  \/ Nested("whileDo", whileDo(Acc, lhs.arr))

NextFusion ==
  \/ NestComposeK
  \/ NestPipeK
  \/ NestAndThen
  \/ NestMap
  \/ NestConstant
  \/ NestSwitchK
  \/ NestJoin
  \/ NestZipWith
  \/ NestBoth
  \/ NestFirst
  \/ NestSecond
  \/ NestAsEffect
  \/ NestLeft
  \/ NestRight
  \/ NestTest
  \/ NestIfThenElse
  \/ NestIfThen
  \/ NestWhileDo

SpecFusion == InitFusion /\ [][NextFusion]_vars

-----------------------------------------------------------------------------
(* Composition of three arrows f = lhs, g = rhs and a third arrow h, in    *)
(* both groupings, and composition with identity().  The functions of h    *)
(* are named "h" in the trace.                                              *)

ThirdOperands ==
  {liftK([name |-> "h", kind |-> "tbl", tbl |-> PlainTbl("inc", -1, "x1")]),
   impure(classify, [name |-> "h", kind |-> "tbl", tbl |-> PlainTbl("inc", 0, "x1")]),
   pure([name |-> "h", tbl |-> PureTbl(1, "e1")])}

\* composeK(h, composeK(g, f))
ComposeInner == \E h \in ThirdOperands : Built("composeInner", composeK(h, composeK(rhs, lhs.arr)))

\* composeK(composeK(h, g), f)
ComposeOuter == \E h \in ThirdOperands : Built("composeOuter", composeK(composeK(h, rhs), lhs.arr))

\* composeK(identity(), f)
ComposeIdentity == Built("composeIdentity", composeK(identity, lhs.arr))

\* composeK(f, identity())
ComposeOnIdentity == Built("composeOnIdentity", composeK(lhs.arr, identity))

RunComposed == \E a \in Val : opName # "none" /\ Ran("MonadThrow", a)

RunComposedIE == \E a \in Val : opName # "none" /\ Ran("IOEither", a)

NextAssoc ==
  \/ ComposeInner
  \/ ComposeOuter
  \/ ComposeIdentity
  \/ ComposeOnIdentity
  \/ RunComposed
  \/ RunComposedIE

SpecAssoc == Init /\ [][NextAssoc]_vars

-----------------------------------------------------------------------------
(* The single-monad Kleisli: the same constructors and combinators over a  *)
(* monad with no failure channel.                                           *)

KleisliOperands ==
  {Operand("impure", "", impure(c, fn)) : c \in Catchers \cup {id}, fn \in PlainFns("l")}
  \cup {Operand("liftK", "", liftK(fn)) : fn \in PlainFns("l")}

InitKleisli ==
  /\ \E o \in KleisliOperands : lhs = o
  /\ rhs \in {liftK(fn) : fn \in PlainFns("r")}
  /\ cond = None
  /\ arrow = None
  /\ opName = "none"
  /\ input = 0
  /\ variant = "none"
  /\ outcome = NoOutcome
  /\ callers = NoCallers

\* arrow.run(a) of Kleisli.
RunArrowK == \E a \in Val : opName # "none" /\ Ran("Kleisli", a)

NextKleisli ==
  \/ UseOperand
  \/ AndThen
  \/ RunArrowK

SpecKleisli == InitKleisli /\ [][NextKleisli]_vars

-----------------------------------------------------------------------------
(* Runs of whileDo(cond)(body) call by call.  A run evaluates cond on the  *)
(* value in hand, then body on it when cond was true, and so on; between   *)
(* two calls of one run the calls of another caller's run may happen.  On  *)
(* the fused path a call is cond._run / body._run inside the try of        *)
(* Impure.run, on the unfused path it is cond.run / body.run under         *)
(* M.chain; both come to Run of the operand.                                *)

StepConds ==
  {liftK(fn) : fn \in {[name |-> "c", kind |-> "tbl", tbl |-> CondTbl("lt", 2, -1, "x1")],
                       [name |-> "c", kind |-> "tbl", tbl |-> CondTbl("ne", 0, -1, "x1")]}}
  \cup {impure(classify, fn) :
          fn \in {[name |-> "c", kind |-> "tbl", tbl |-> CondTbl("lt", MaxCount, 1, "x1")]}}
  \cup {pure(pf) : pf \in {[name |-> "c", tbl |-> PureCondTbl("lt", 2, -1, "e1")],
                           [name |-> "c", tbl |-> PureCondTbl("lt", MaxCount, 1, "e1")]}}

StepBodies ==
  {Operand("liftK", "", liftK(fn)) :
     fn \in {[name |-> "l", kind |-> "tbl", tbl |-> BodyTbl("inc", -1, "x1")]}}
  \cup {Operand("impure", "", impure(classify, fn)) :
          fn \in {[name |-> "l", kind |-> "tbl", tbl |-> BodyTbl("inc", 1, "x2")]}}
  \cup {Operand("pure", "", pure(pf)) :
          pf \in {[name |-> "l", tbl |-> PureBodyTbl("dec", -1, "e2")],
                  [name |-> "l", tbl |-> PureBodyTbl("inc", 0, "e2")]}}

InitSteps ==
  /\ cond \in StepConds
  /\ \E o \in StepBodies : lhs = o
  /\ rhs = identity
  /\ arrow = None
  /\ opName = "none"
  /\ input = 0
  /\ variant = "none"
  /\ outcome = NoOutcome
  /\ callers = NoCallers

\* A value in hand that all runs share.
CurrentOfFirst(cs, i) == cs["p"].a

\* `let a = a0` of the fused function, the parameter a of the unfused one.
Current(cs, i) == cs[i].a

\* A loop that runs its body whatever the condition returned.
LoopAlwaysGoesOn(b) == TRUE

\* `while (cond._run(a))` and `b ? ... : M.of(a)`.
LoopGoesOn(b) == b

\* arrow.run(a0): the run begins by evaluating the condition on a0.
Start(i) ==
  \E a0 \in Count, va \in {"MonadThrow", "IOEither"} :
    /\ opName = "whileDo"
    /\ callers[i].pc \in {"idle", "done"}
    /\ callers' = [callers EXCEPT ![i] = [pc |-> "cond", va |-> va, in |-> a0, a |-> a0,
                                          tr |-> <<>>, res |-> NoOutcome]]
    /\ UNCHANGED <<lhs, rhs, cond, arrow, opName, input, variant, outcome>>

EvalCond(i) ==
  /\ callers[i].pc = "cond"
  /\ LET me == callers[i]
         a == Current(callers, i)
         c == Run(me.va, cond, a, me.tr)
     IN callers' = [callers EXCEPT ![i] =
          IF ~MChainContinues(c) THEN [me EXCEPT !.pc = "done", !.tr = c.tr, !.res = c]
          ELSE IF LoopGoesOn(c.v) THEN [me EXCEPT !.pc = "body", !.tr = c.tr]
          ELSE [me EXCEPT !.pc = "done", !.tr = c.tr, !.res = MOf(a, c.tr)]]
  /\ UNCHANGED <<lhs, rhs, cond, arrow, opName, input, variant, outcome>>

RunBody(i) ==
  /\ callers[i].pc = "body"
  /\ LET me == callers[i]
         b == Run(me.va, lhs.arr, Current(callers, i), me.tr)
     IN callers' = [callers EXCEPT ![i] =
          IF ~MChainContinues(b) THEN [me EXCEPT !.pc = "done", !.tr = b.tr, !.res = b]
          ELSE [me EXCEPT !.pc = "cond", !.a = b.v, !.tr = b.tr]]
  /\ UNCHANGED <<lhs, rhs, cond, arrow, opName, input, variant, outcome>>

NextSteps ==
  \/ WhileDo
  \/ \E i \in Caller : Start(i)
  \/ \E i \in Caller : EvalCond(i)
  \/ \E i \in Caller : RunBody(i)

SpecSteps == InitSteps /\ [][NextSteps]_vars

-----------------------------------------------------------------------------
(* Unsafe extraction.  A promise is settled as "resolved" with a value or  *)
(* "rejected" with a reason; a thrown or rejected carried error has the    *)
(* class "E", the type of the failure channel.                              *)

Resolved(v, tr) == [k |-> "resolved", v |-> v, cls |-> "", e |-> "", tr |-> tr]
Rejected(cls, e, tr) == [k |-> "rejected", v |-> 0, cls |-> cls, e |-> e, tr |-> tr]

\* unsafeRun of index.ts: ie.run().fold((e) => { throw e; }, (a) => a)
unsafeRun(ie) ==
  IF ie.k = "left" THEN Thrown("E", ie.e, ie.tr) ELSE Ret(ie.v, ie.tr)

\* An extraction that returns on a failure as well.
unsafeRunIEReturns(ie) == Ret(ie.v, ie.tr)

\* unsafeRunIE: pipe(ie.run(), fold((e) => { throw e; }, identity))
unsafeRunIE(ie) ==
  IF ie.k = "left" THEN Thrown("E", ie.e, ie.tr) ELSE Ret(ie.v, ie.tr)

(* unsafeRunTE: the async function awaits ie.run() and folds it the same   *)
(* way; a throw inside an async function rejects its promise.              *)
unsafeRunTE(ie) ==
  IF ie.k = "left" THEN Rejected("E", ie.e, ie.tr) ELSE Resolved(ie.v, ie.tr)

(* unsafeRunX(k.run(a)): a fault that escapes k.run(a) leaves the          *)
(* expression before the extraction is applied.                             *)
Extracted(name, va, a) ==
  LET ie == Run(va, arrow, a, <<>>)
  IN /\ input' = a
     /\ variant' = name
     /\ outcome' = IF ie.k = "throw" THEN ie
                   ELSE CASE name = "unsafeRun" -> unsafeRun(ie)
                          [] name = "unsafeRunIE" -> unsafeRunIE(ie)
                          [] name = "unsafeRunTE" -> unsafeRunTE(ie)
     /\ UNCHANGED <<lhs, rhs, cond, arrow, opName, callers>>

UnsafeRun == \E a \in Val : opName # "none" /\ Extracted("unsafeRun", "IOEither", a)

UnsafeRunIE == \E a \in Val : opName # "none" /\ Extracted("unsafeRunIE", "MonadThrow", a)

UnsafeRunTE == \E a \in Val : opName # "none" /\ Extracted("unsafeRunTE", "MonadThrow", a)

NextUnsafe ==
  \/ UseOperand
  \/ AndThen
  \/ UnsafeRun
  \/ UnsafeRunIE
  \/ UnsafeRunTE

SpecUnsafe == Init /\ [][NextUnsafe]_vars

-----------------------------------------------------------------------------
(* Pairs and effects: swap, fst and snd run on pairs; first, second,       *)
(* constant, toVoid and asEffect are built from the arrow `lhs`.           *)

Pairs == {<<a, b>> : a \in Val, b \in Val}

InitShape ==
  /\ \E o \in LeftOperands : lhs = o
  /\ rhs = identity
  /\ cond = None
  /\ arrow = None
  /\ opName = "none"
  /\ input = 0
  /\ variant = "none"
  /\ outcome = NoOutcome
  /\ callers = NoCallers

Swap == Built("swap", swap)

Fst == Built("fst", fst)

Snd == Built("snd", snd)

SwapSwap == Built("swapSwap", andThen(swap, swap))

SwapFst == Built("swapFst", andThen(swap, fst))

SwapSnd == Built("swapSnd", andThen(swap, snd))

First == Built("first", first(lhs.arr))

Second == Built("second", second(lhs.arr))

Constant == \E c \in Val : Built("constant", constant(lhs.arr, c))

ToVoid == Built("toVoid", toVoid(lhs.arr))

AsEffect == Built("asEffect", asEffect(lhs.arr))

OnPair == {"swap", "fst", "snd", "swapSwap", "swapFst", "swapSnd"}
OnPlain == {"first", "second", "constant", "toVoid", "asEffect"}

RunShape ==
  \/ \E a \in Pairs : opName \in OnPair /\ Ran("MonadThrow", a)
  \/ \E a \in Val : opName \in OnPlain /\ Ran("MonadThrow", a)

RunShapeIE ==
  \/ \E a \in Pairs : opName \in OnPair /\ Ran("IOEither", a)
  \/ \E a \in Val : opName \in OnPlain /\ Ran("IOEither", a)

NextShape ==
  \/ Swap
  \/ Fst
  \/ Snd
  \/ SwapSwap
  \/ SwapFst
  \/ SwapSnd
  \/ First
  \/ Second
  \/ Constant
  \/ ToVoid
  \/ AsEffect
  \/ RunShape
  \/ RunShapeIE

SpecShape == InitShape /\ [][NextShape]_vars

-----------------------------------------------------------------------------
TypeOK ==
  /\ opName \in {"none", "operand", "composeK", "composeKBi", "pipeK", "andThen",
                 "chain", "chainMethod", "zipWith", "whileDo", "whileDoBi",
                 "switchK", "switchKBi", "join", "left", "right", "test",
                 "ifThenElse", "ifThen", "mapId", "mapMap", "ofChain", "chainOf",
                 "chainChain", "map", "both", "composeInner", "composeOuter",
                 "composeIdentity", "composeOnIdentity", "swap", "fst", "snd", "swapSwap", "swapFst",
                 "swapSnd", "first", "second", "constant", "toVoid", "asEffect"}
  /\ variant \in {"none", "MonadThrow", "IOEither", "BiKleisli", "Kleisli",
                  "unsafeRun", "unsafeRunIE", "unsafeRunTE"}
  /\ outcome.k \in {"none", "right", "left", "throw", "ret", "resolved", "rejected"}
  /\ \A i \in Caller :
       /\ callers[i].pc \in {"idle", "cond", "body", "done"}
       /\ callers[i].va \in {"none", "MonadThrow", "IOEither"}
       /\ callers[i].in \in Count /\ callers[i].a \in Count

-----------------------------------------------------------------------------
(* Properties.                                                              *)

HasRun == variant # "none"

Sequential == opName \in {"composeK", "pipeK", "andThen"}

\* Two results are the same observation: same kind, same value or carried
\* error, same calls in the same order.
SameOutcome(o1, o2) ==
  /\ o1.k = o2.k
  /\ o1.cls = o2.cls
  /\ o1.e = o2.e
  /\ o1.tr = o2.tr
  /\ (o1.k \in {"ret", "right"} => o1.v = o2.v)

\* second._run(first._run(a)), evaluated step by step.
AppliedInTurn(firstK, secondK, a) ==
  LET o1 == RawEval(firstK.run_, a, <<>>)
  IN IF o1.k = "throw" THEN o1 ELSE RawEval(secondK.run_, o1.v, o1.tr)

\* C1: running the fusion of two Impure arrows gives the same result and the
\* same calls in the same order as running the Compose node of the same two
\* arrows, in every variant of the library.
FusionTransparency ==
  (HasRun /\ (Sequential \/ opName = "composeKBi")
     /\ isImpure(lhs.arr) /\ isImpure(rhs))
  => SameOutcome(outcome, Run(variant, Compose(rhs, lhs.arr), input, <<>>))

FusedSecondFailed ==
  /\ opName = "composeK" /\ variant = "MonadThrow"
  /\ isImpure(lhs.arr) /\ isImpure(rhs) /\ arrow.tag = "Impure"
  /\ outcome.k = "left"
  /\ HasCall(outcome.tr, "l") /\ HasCall(outcome.tr, "r") /\ HasCatch(outcome.tr, "r")

\* C2: composeK, pipeK and andThen (and composeK of BiKleisli) return an
\* Impure arrow whose function is x -> second(first(x)) exactly when both
\* operands are Impure, and a Compose node of the two operands otherwise.
FusionRule ==
  (Sequential \/ opName = "composeKBi")
  => IF isImpure(lhs.arr) /\ isImpure(rhs)
     THEN /\ arrow.tag = "Impure"
          /\ \A a \in Val :
               SameOutcome(RawEval(arrow.run_, a, <<>>), AppliedInTurn(lhs.arr, rhs, a))
     ELSE /\ arrow.tag = "Compose"
          /\ arrow.f = lhs.arr
          /\ arrow.g = rhs

FusedByPipeK ==
  /\ opName = "pipeK"
  /\ lhs.ctor = "impure" /\ isImpure(rhs)
  /\ arrow.tag = "Impure"

\* C3: when the first arrow signals a domain error on the input, the
\* sequential composition yields that failure and no function of the second
\* arrow is called, on the fused and on the unfused path.
ShortCircuit ==
  (HasRun /\ Sequential)
  => LET r1 == Run(variant, lhs.arr, input, <<>>)
     IN r1.k = "left"
        => /\ outcome.k = "left"
           /\ outcome.e = r1.e
           /\ ~HasCall(outcome.tr, "r")
           /\ ~HasCatch(outcome.tr, "r")

UnfusedShortCircuit ==
  /\ opName = "composeK" /\ variant = "MonadThrow"
  /\ lhs.ctor = "pure" /\ arrow.tag = "Compose"
  /\ Run(variant, lhs.arr, input, <<>>).k = "left"
  /\ Run(variant, rhs, input, <<>>).k = "right"
  /\ outcome.k = "left"

\* C4: in a run of first.andThen(second) (composeK, pipeK) or fa.chain(f),
\* every call made by the first arrow precedes every call made for the
\* second one, and the second one is only started after the first succeeded.
FirstCompletesBeforeSecond ==
  (HasRun /\ (Sequential \/ opName \in {"chain", "chainMethod"}))
  => LET tr == outcome.tr
         OfSecond(i) == tr[i][1] \in {"r", "f"}
     IN /\ \A i, j \in 1..Len(tr) : (tr[i][1] = "l" /\ OfSecond(j)) => i < j
        /\ (\E j \in 1..Len(tr) : OfSecond(j))
             => Run(variant, lhs.arr, input, <<>>).k = "right"

BothRanInOrder ==
  /\ opName = "andThen" /\ variant = "MonadThrow"
  /\ arrow.tag = "Impure"
  /\ outcome.k = "right"
  /\ HasCall(outcome.tr, "l") /\ HasCall(outcome.tr, "r")

\* C5: chain(fa, f) run on a runs fa on a; on success b it runs f(b) on the
\* original input a and returns its result; on a domain error of fa, f is
\* never called and that error is the result.
ChainRunsOnOriginalInput ==
  (HasRun /\ opName \in {"chain", "chainMethod"})
  => LET r1 == Run(variant, lhs.arr, input, <<>>)
         f == arrow.run_.f
     IN /\ r1.k = "right"
             => SameOutcome(outcome,
                  Run(variant, f.tbl[r1.v], input, Append(r1.tr, <<"f", "call", r1.v>>)))
        /\ r1.k = "left"
             => /\ SameOutcome(outcome, r1)
                /\ ~HasCall(outcome.tr, "f")
                /\ ~HasCall(outcome.tr, "r")

ChainedOnInputNotResult ==
  /\ opName = "chain" /\ variant = "MonadThrow"
  /\ outcome.k = "right"
  /\ HasCall(outcome.tr, "f") /\ HasCall(outcome.tr, "r")
  /\ LET r1 == Run(variant, lhs.arr, input, <<>>)
     IN /\ r1.k = "right"
        /\ r1.v # input
        /\ Run(variant, rhs, r1.v, <<>>).k = "right"
        /\ Run(variant, rhs, r1.v, <<>>).v # outcome.v

-----------------------------------------------------------------------------
\* What the function of the left operand does on the input: for the arrows
\* built by liftK, impure and impureVoid, the entry of f's table.
LhsEntry == lhs.arr.run_.fn.tbl[input]

LhsCatcher == lhs.arr.run_.catcher

\* C6: in both variants with a failure channel, a fault raised by the
\* function of an Impure arrow that is not the domain-error wrapper escapes
\* run unchanged and is never returned as a failure value.
DefectsNeverConverted ==
  (variant \in {"MonadThrow", "IOEither"} /\ arrow.tag = "Impure")
  => LET o == RawEval(arrow.run_, input, <<>>)
     IN (o.k = "throw" /\ o.cls # "KleisliIOError")
        => /\ outcome.k = "throw"
           /\ outcome.cls = o.cls
           /\ outcome.e = o.e

\* C7, as stated: with impure(catcher)(f), a fault x of f classified by the
\* catcher as e gives the failure e; when the catcher itself raises, the
\* fault that escapes is the original x; when f returns, the result is the
\* success f(a) and the catcher is not called.
CatcherRaiseKeepsOriginal ==
  (variant = "MonadThrow" /\ opName = "operand" /\ lhs.ctor = "impure")
  => /\ LhsEntry.k = "ret"
          => /\ outcome.k = "right" /\ outcome.v = LhsEntry.v
             /\ ~HasCatch(outcome.tr, "l")
     /\ LhsEntry.k = "throw"
          => LET r1 == LhsCatcher.c1[LhsEntry.e]
                 r2 == LhsCatcher.c2[LhsEntry.e]
             IN /\ (r1.k = "val" /\ r2 = r1)
                     => outcome.k = "left" /\ outcome.e = r1.v
                /\ r1.k = "raise"
                     => /\ outcome.k = "throw"
                        /\ outcome.cls = "Error"
                        /\ outcome.e = LhsEntry.e

\* C7, amended: as above, but when the catcher raises a fault y while
\* classifying x, the fault that escapes run is y, the catcher's own fault
\* (it is x only when the catcher throws x again, as voidCatcher does).
CatcherRaiseEscapes ==
  (variant = "MonadThrow" /\ opName = "operand" /\ lhs.ctor = "impure")
  => /\ LhsEntry.k = "ret"
          => /\ outcome.k = "right" /\ outcome.v = LhsEntry.v
             /\ ~HasCatch(outcome.tr, "l")
     /\ LhsEntry.k = "throw"
          => LET r1 == LhsCatcher.c1[LhsEntry.e]
                 r2 == LhsCatcher.c2[LhsEntry.e]
             IN /\ (r1.k = "val" /\ r2 = r1)
                     => outcome.k = "left" /\ outcome.e = r1.v
                /\ r1.k = "raise"
                     => /\ outcome.k = "throw"
                        /\ outcome.cls = "Error"
                        /\ outcome.e = r1.v

CatcherRaisedAnotherFault ==
  /\ variant = "MonadThrow" /\ opName = "operand" /\ lhs.ctor = "impure"
  /\ LhsEntry.k = "throw"
  /\ LhsCatcher.c1[LhsEntry.e].k = "raise"
  /\ LhsCatcher.c1[LhsEntry.e].v # LhsEntry.e
  /\ outcome.k = "throw"
  /\ outcome.e = LhsCatcher.c1[LhsEntry.e].v

\* C8: impureVoid(f).run(a) lets the fault raised by f escape as a thrown
\* fault, never as a failure value, and is the success f(a) when f returns.
ImpureVoidIsFatal ==
  (variant = "MonadThrow" /\ opName = "operand" /\ lhs.ctor = "impureVoid")
  => /\ LhsEntry.k = "throw"
          => /\ outcome.k = "throw"
             /\ outcome.cls = "Error"
             /\ outcome.e = LhsEntry.e
     /\ LhsEntry.k = "ret"
          => outcome.k = "right" /\ outcome.v = LhsEntry.v

ImpureVoidFaultEscaped ==
  /\ variant = "MonadThrow" /\ opName = "operand" /\ lhs.ctor = "impureVoid"
  /\ LhsEntry.k = "throw"
  /\ outcome.k = "throw"
  /\ HasCatch(outcome.tr, "l")

\* C9: fail(e).run(a) is the failure e for every input; fail(e).andThen(g)
\* with g Impure is a fused Impure arrow and still yields the failure e
\* without calling g's function.
FailAlwaysFails ==
  (variant = "MonadThrow" /\ lhs.ctor = "fail")
  => /\ opName = "operand"
          => outcome.k = "left" /\ outcome.e = lhs.p
     /\ (opName = "andThen" /\ isImpure(rhs))
          => /\ arrow.tag = "Impure"
             /\ outcome.k = "left" /\ outcome.e = lhs.p
             /\ ~HasCall(outcome.tr, "r")

FailFusedWithImpure ==
  /\ variant = "MonadThrow" /\ lhs.ctor = "fail" /\ lhs.p = "e1"
  /\ opName = "andThen" /\ isImpure(rhs) /\ rhs.run_.t = "fn"
  /\ arrow.tag = "Impure"
  /\ outcome.k = "left" /\ outcome.e = "e1"

\* What the two functions of a fused zipWith do when both are evaluated on
\* the input, the left one first.
ZipLeft == RawEval(lhs.arr.run_, input, <<>>)

ZipRight == RawEval(rhs.run_, input, ZipLeft.tr)

IsPrefix(s1, s2) == Len(s1) <= Len(s2) /\ SubSeq(s2, 1, Len(s1)) = s1

FusedZip ==
  /\ HasRun /\ opName = "zipWith"
  /\ isImpure(lhs.arr) /\ isImpure(rhs)

\* C10, as stated: on the fused path of zipWith every run executes both
\* functions, the left one and then the right one, also when the left one
\* signals a domain error.
FusedZipRunsBoth ==
  (FusedZip /\ (ZipLeft.k = "ret" \/ ZipLeft.cls = "KleisliIOError"))
  => IsPrefix(ZipRight.tr, outcome.tr)

\* C10, amended: on the fused path of zipWith the left function runs first
\* and the right one after it only when the left one returned; when the left
\* one signals a domain error (or raises any fault) the right function is
\* not executed and the run ends with the left one's error.
FusedZipStopsAtLeftError ==
  FusedZip
  => /\ ZipLeft.k = "ret" => IsPrefix(ZipRight.tr, outcome.tr)
     /\ ZipLeft.k = "throw"
          => /\ outcome.tr = ZipLeft.tr
             /\ outcome.e = ZipLeft.e
             /\ ~HasCall(outcome.tr, "r")
             /\ outcome.k = IF ZipLeft.cls = "KleisliIOError" \/ variant = "IOEither"
                            THEN "left" ELSE "throw"

FusedZipLeftFailed ==
  /\ FusedZip /\ variant = "MonadThrow"
  /\ ZipLeft.k = "throw" /\ ZipLeft.cls = "KleisliIOError"
  /\ HasCall(ZipRight.tr, "r")
  /\ outcome.k = "left"
  /\ ~HasCall(outcome.tr, "r")

-----------------------------------------------------------------------------
\* The two operands of an unfused zipWith run one after the other on the
\* input, the left one first.
UnfusedZip ==
  /\ HasRun /\ opName = "zipWith"
  /\ ~(isImpure(lhs.arr) /\ isImpure(rhs))

ZipLeftRun == Run(variant, lhs.arr, input, <<>>)

ZipRightRun == Run(variant, rhs, input, ZipLeftRun.tr)

\* C11: when l or r is not Impure, zipWith(l, r)(f).run(a) runs l on a
\* first; a domain error e of l is the result and r is not started; after a
\* success b of l, r runs on the same a, its success c gives the success
\* f([b, c]) and its domain error is the result without f being applied.
UnfusedZipSequences ==
  UnfusedZip
  => /\ IsPrefix(ZipLeftRun.tr, outcome.tr)
     /\ ZipLeftRun.k = "left"
          => /\ outcome.k = "left" /\ outcome.e = ZipLeftRun.e
             /\ outcome.tr = ZipLeftRun.tr
             /\ ~HasCall(outcome.tr, "r") /\ ~HasCall(outcome.tr, "f")
     /\ ZipLeftRun.k = "right"
          => /\ IsPrefix(ZipRightRun.tr, outcome.tr)
             /\ ZipRightRun.k = "right"
                  => SameOutcome(outcome,
                       MOf(Apply(arrow.run_.f, <<ZipLeftRun.v, ZipRightRun.v>>, <<>>).v,
                           Append(ZipRightRun.tr,
                                  <<"f", "call", <<ZipLeftRun.v, ZipRightRun.v>>>>)))
             /\ ZipRightRun.k = "left"
                  => /\ outcome.k = "left" /\ outcome.e = ZipRightRun.e
                     /\ ~HasCall(outcome.tr, "f")

UnfusedZipLeftFailed ==
  /\ UnfusedZip /\ variant = "MonadThrow"
  /\ lhs.ctor = "pure" /\ isImpure(rhs)
  /\ ZipLeftRun.k = "left"
  /\ Run(variant, rhs, input, <<>>).k = "right"
  /\ outcome.k = "left"
  /\ ~HasCall(outcome.tr, "r")

-----------------------------------------------------------------------------
(* Loops.  What a loop over `cond` and the body `lhs` has to do on the     *)
(* input is stated from single runs of the two arrows: LoopValues[j] is    *)
(* the value in hand after j applications of the body.                      *)

CountCalls(tr, name) ==
  Cardinality({i \in 1..Len(tr) : tr[i][1] = name /\ tr[i][2] = "call"})

CondAt(x) == Run(variant, cond, x, <<>>)

BodyAt(x) == Run(variant, lhs.arr, x, <<>>)

LoopValues ==
  LET pow[j \in 0..(MaxCount + 1)] == IF j = 0 THEN input ELSE BodyAt(pow[j - 1]).v
  IN pow

\* Iteration j finds the condition true and its body succeeds.
GoesOn(j) ==
  /\ CondAt(LoopValues[j]).k = "right" /\ CondAt(LoopValues[j]).v
  /\ BodyAt(LoopValues[j]).k = "right"

\* The condition is first false after k applications of the body.
StopsAfter(k) ==
  /\ \A i \in 0..(k - 1) : GoesOn(i)
  /\ CondAt(LoopValues[k]).k = "right" /\ ~CondAt(LoopValues[k]).v

UnfusedLoopRepeats ==
  (HasRun /\ opName \in {"whileDo", "whileDoBi"} /\ arrow.tag = "Pure")
  => \A k \in 0..MaxCount :
       StopsAfter(k)
       => /\ outcome.k = "right"
          /\ outcome.v = LoopValues[k]
          /\ CountCalls(outcome.tr, "l") = k

\* The same for the variants other than BiKleisli.
UnfusedLoopRepeatsKleisliIO ==
  (HasRun /\ opName = "whileDo" /\ arrow.tag = "Pure")
  => \A k \in 0..MaxCount :
       StopsAfter(k)
       => /\ outcome.k = "right"
          /\ outcome.v = LoopValues[k]
          /\ CountCalls(outcome.tr, "l") = k

\* Iteration j is reached and its condition, or its body, signals a domain
\* error.
FailsAtCond(j) ==
  /\ \A i \in 0..(j - 1) : GoesOn(i)
  /\ CondAt(LoopValues[j]).k = "left"

FailsAtBody(j) ==
  /\ \A i \in 0..(j - 1) : GoesOn(i)
  /\ CondAt(LoopValues[j]).k = "right" /\ CondAt(LoopValues[j]).v
  /\ BodyAt(LoopValues[j]).k = "left"

LastCallOf(tr, name) == Len(tr) > 0 /\ tr[Len(tr)][1] = name

\* C14: on the fused and on the unfused path of whileDo, a domain error e of
\* cond or of body in some iteration makes the run the failure e, and neither
\* cond nor body is called after the call that signalled it.
WhileDoAborts ==
  (HasRun /\ opName = "whileDo")
  => \A j \in 0..MaxCount :
       /\ FailsAtCond(j)
            => /\ outcome.k = "left" /\ outcome.e = CondAt(LoopValues[j]).e
               /\ CountCalls(outcome.tr, "c") = j + 1
               /\ CountCalls(outcome.tr, "l") = j
               /\ LastCallOf(outcome.tr, "c")
       /\ FailsAtBody(j)
            => /\ outcome.k = "left" /\ outcome.e = BodyAt(LoopValues[j]).e
               /\ CountCalls(outcome.tr, "c") = j + 1
               /\ CountCalls(outcome.tr, "l") = j + 1
               /\ LastCallOf(outcome.tr, "l")

FusedLoopAborted ==
  /\ opName = "whileDo" /\ variant = "MonadThrow"
  /\ arrow.tag = "Impure"
  /\ FailsAtBody(1)
  /\ outcome.k = "left"
  /\ CountCalls(outcome.tr, "l") = 2

UnfusedLoopAborted ==
  /\ opName = "whileDo" /\ variant = "MonadThrow"
  /\ arrow.tag = "Pure"
  /\ FailsAtCond(2)
  /\ outcome.k = "left"
  /\ CountCalls(outcome.tr, "l") = 2

-----------------------------------------------------------------------------
(* Branching.                                                               *)

NoCallsOf(tr, name) == ~HasCall(tr, name) /\ ~HasCatch(tr, name)

\* The else-branch of the conditional that was built.
ElseArm == IF opName = "ifThen" THEN identity ELSE rhs

AllImpure == isImpure(cond) /\ isImpure(lhs.arr) /\ isImpure(ElseArm)

\* C15: when cond succeeds on a, ifThenElse(cond)(then)(else_).run(a) (and
\* ifThen) evaluates cond once, then runs only `then` on a when cond is true
\* and only `else_` on a when it is false, and returns that branch's result;
\* the fused arrow gives the same result as test(cond).andThen(switchK(then,
\* else_)).
IfThenElseSelects ==
  (HasRun /\ opName \in {"ifThenElse", "ifThen"})
  => LET c == Run(variant, cond, input, <<>>)
     IN /\ c.k = "right"
             => /\ CountCalls(outcome.tr, "c") = 1
                /\ c.v => /\ SameOutcome(outcome, Run(variant, lhs.arr, input, c.tr))
                          /\ NoCallsOf(outcome.tr, "r")
                /\ ~c.v => /\ SameOutcome(outcome, Run(variant, ElseArm, input, c.tr))
                           /\ NoCallsOf(outcome.tr, "l")
        /\ AllImpure
             => /\ arrow.tag = "Impure" /\ arrow.run_.t = "ite"
                /\ SameOutcome(outcome,
                     Run(variant, andThen(test(cond), switchK(lhs.arr, ElseArm)), input, <<>>))

UnfusedElseTaken ==
  /\ opName = "ifThenElse" /\ variant = "MonadThrow"
  /\ arrow.tag = "Compose"
  /\ Run(variant, cond, input, <<>>).k = "right"
  /\ ~Run(variant, cond, input, <<>>).v
  /\ outcome.k = "right"
  /\ HasCall(outcome.tr, "r") /\ ~HasCall(outcome.tr, "l")

FusedThenTaken ==
  /\ opName = "ifThenElse" /\ variant = "MonadThrow"
  /\ arrow.tag = "Impure"
  /\ outcome.k = "right"
  /\ HasCall(outcome.tr, "l") /\ ~HasCall(outcome.tr, "r")

\* C16: switchK(l, r) (and join) on a left holding a runs only l, on a, and
\* on a right holding c runs only r, on c; the result, a domain error
\* included, is that of the branch selected; on the fused and on the unfused
\* path.
SwitchKSelects ==
  (HasRun /\ opName \in {"switchK", "join", "switchKBi"})
  => /\ arrow.tag = IF isImpure(lhs.arr) /\ isImpure(rhs) THEN "Impure" ELSE "Pure"
     /\ input.side = "left"
          => /\ SameOutcome(outcome, Run(variant, lhs.arr, input.x, <<>>))
             /\ NoCallsOf(outcome.tr, "r")
     /\ input.side = "right"
          => /\ SameOutcome(outcome, Run(variant, rhs, input.x, <<>>))
             /\ NoCallsOf(outcome.tr, "l")

UnfusedRightBranchFailed ==
  /\ opName = "switchK" /\ variant = "MonadThrow"
  /\ arrow.tag = "Pure"
  /\ input.side = "right"
  /\ outcome.k = "left"
  /\ HasCall(outcome.tr, "r") /\ ~HasCall(outcome.tr, "l")
  /\ Run(variant, lhs.arr, input.x, <<>>).k = "right"

\* C17: test(cond).run(a) is the success left(a) when cond succeeds with
\* true and the success right(a) when it succeeds with false, a being the
\* original input, for every tag of cond; a domain error of cond is the
\* failure returned.
TestTagsInput ==
  (HasRun /\ opName = "test")
  => LET c == Run(variant, cond, input, <<>>)
     IN /\ (c.k = "right" /\ c.v)
             => outcome.k = "right" /\ outcome.v = eitherLeft(input) /\ outcome.tr = c.tr
        /\ (c.k = "right" /\ ~c.v)
             => outcome.k = "right" /\ outcome.v = eitherRight(input) /\ outcome.tr = c.tr
        /\ c.k = "left"
             => outcome.k = "left" /\ outcome.e = c.e /\ outcome.tr = c.tr

TestOfPureCondFalse ==
  /\ opName = "test" /\ variant = "MonadThrow"
  /\ cond.tag = "Pure"
  /\ input # 0
  /\ outcome.k = "right"
  /\ outcome.v = eitherRight(input)

\* C18: left(k) applies k to the value of a left and gives the left of k's
\* output, and returns a right unchanged without calling k; right(k) applies
\* k to the value of a right and returns a left unchanged; whether k is
\* Impure or not.
LeftRightLift ==
  (HasRun /\ opName \in {"left", "right"})
  => LET k == Run(variant, lhs.arr, input.x, <<>>)
     IN IF input.side = opName
        THEN /\ k.k = "right"
                  => /\ outcome.k = "right"
                     /\ outcome.v = [side |-> opName, x |-> k.v]
                     /\ outcome.tr = k.tr
             /\ k.k # "right" => SameOutcome(outcome, k)
        ELSE /\ outcome.k = "right"
             /\ outcome.v = input
             /\ outcome.tr = <<>>

UnfusedLeftApplied ==
  /\ opName = "left" /\ variant = "MonadThrow"
  /\ arrow.tag = "Pure"
  /\ input.side = "left"
  /\ outcome.k = "right"
  /\ outcome.v.side = "left" /\ outcome.v.x # input.x
  /\ HasCall(outcome.tr, "l")

RightPassedLeftThrough ==
  /\ opName = "right" /\ variant = "MonadThrow"
  /\ arrow.tag = "Impure"
  /\ input.side = "left"
  /\ outcome.k = "right" /\ outcome.v = input
  /\ outcome.tr = <<>>

-----------------------------------------------------------------------------
(* Laws.                                                                    *)

\* C19: fa.map(identity).run(a) is the same result as fa.run(a), and
\* fa.map(f).map(g).run(a) the same as fa.map(flow(f, g)).run(a), whatever
\* the tag of fa and whether the result is a success or a failure.
FunctorLaws ==
  /\ (HasRun /\ opName = "mapId")
       => SameOutcome(outcome, Run(variant, lhs.arr, input, <<>>))
  /\ (HasRun /\ opName = "mapMap")
       => \A f \in MapFs, g \in MapGs :
            arrow = map(map(lhs.arr, f), g)
            => SameOutcome(outcome, Run(variant, map(lhs.arr, Flow(f, g)), input, <<>>))

MappedTwice ==
  /\ opName = "mapMap" /\ variant = "MonadThrow"
  /\ lhs.ctor = "pure"
  /\ outcome.k = "right"
  /\ HasCall(outcome.tr, "l") /\ HasCall(outcome.tr, "f") /\ HasCall(outcome.tr, "g")

MappedFailure ==
  /\ opName = "mapId" /\ variant = "MonadThrow"
  /\ lhs.ctor = "pure"
  /\ outcome.k = "left"

\* C20: of(b).chain(f).run(x) is the same result as f(b).run(x), and
\* m.chain(of).run(x) the same as m.run(x).
MonadIdentityLaws ==
  /\ (HasRun /\ opName = "ofChain")
       => \A b \in Val : \A f \in ChainFns(rhs) :
            arrow = chainMethod(of(b), f)
            => SameOutcome(outcome,
                 Run(variant, f.tbl[b], input, <<<<"f", "call", b>>>>))
  /\ (HasRun /\ opName = "chainOf")
       => SameOutcome(outcome, Run(variant, lhs.arr, input, <<>>))

ChainedWithOf ==
  /\ opName = "chainOf" /\ variant = "MonadThrow"
  /\ outcome.k = "right" /\ outcome.v # input
  /\ HasCall(outcome.tr, "l")

OfChainedOnOtherInput ==
  /\ opName = "ofChain" /\ variant = "MonadThrow"
  /\ arrow.run_.fa.run_.fn.c # input
  /\ outcome.k = "right"
  /\ HasCall(outcome.tr, "f") /\ HasCall(outcome.tr, "r")

\* m, then f(b), then g(c), each run on the input x of the whole chain.
ChainedInTurn(m, f, g, x) ==
  LET r1 == Run(variant, m, x, <<>>)
  IN IF r1.k # "right" THEN r1
     ELSE LET r2 == Run(variant, f.tbl[r1.v], x, Append(r1.tr, <<f.name, "call", r1.v>>))
          IN IF r2.k # "right" THEN r2
             ELSE Run(variant, g.tbl[r2.v], x, Append(r2.tr, <<g.name, "call", r2.v>>))

\* C21: m.chain(f).chain(g).run(x) is the same result as
\* m.chain(y -> f(y).chain(g)).run(x), also when m, f(y) or g(z) signals a
\* domain error; both run m, f(b) and g(c) in turn on x.
ChainAssociative ==
  (HasRun /\ opName = "chainChain")
  => \A f \in ChainFns(rhs), g \in ChainGs :
       arrow = chainMethod(chainMethod(lhs.arr, f), g)
       => /\ SameOutcome(outcome,
               Run(variant, chainMethod(lhs.arr, ChainThen(f, g)), input, <<>>))
          /\ SameOutcome(outcome, ChainedInTurn(lhs.arr, f, g, input))

ChainedTwice ==
  /\ opName = "chainChain" /\ variant = "MonadThrow"
  /\ outcome.k = "right"
  /\ HasCall(outcome.tr, "l") /\ HasCall(outcome.tr, "f")
  /\ HasCall(outcome.tr, "g") /\ HasCall(outcome.tr, "s")

ChainedTwiceInnerFailed ==
  /\ opName = "chainChain" /\ variant = "MonadThrow"
  /\ outcome.k = "left"
  /\ HasCall(outcome.tr, "f") /\ HasCall(outcome.tr, "g")

-----------------------------------------------------------------------------
(* Pairs and effects.                                                       *)

Succeeds(v) == outcome.k = "right" /\ outcome.v = v /\ outcome.tr = <<>>

\* C22: on every pair [a, b], swap() gives the success [b, a], fst() the
\* success a and snd() the success b; swap after swap gives [a, b] back, and
\* fst and snd after swap give b and a.
PairReshaping ==
  (HasRun /\ opName \in OnPair)
  => CASE opName = "swap" -> Succeeds(<<input[2], input[1]>>)
       [] opName = "fst" -> Succeeds(input[1])
       [] opName = "snd" -> Succeeds(input[2])
       [] opName = "swapSwap" -> Succeeds(input)
       [] opName = "swapFst" -> Succeeds(input[2])
       [] opName = "swapSnd" -> Succeeds(input[1])

SwappedUnequalPair ==
  /\ opName = "swap" /\ variant = "MonadThrow"
  /\ input[1] # input[2]
  /\ outcome.k = "right"
  /\ outcome.v = <<input[2], input[1]>>

\* C26: k.asEffect().run(a) makes the calls of one run of k on a and is the
\* success a when k succeeds and k's failure when k signals a domain error;
\* constant(c) and toVoid() make the same calls and replace only a success,
\* by c and by undefined.
EffectKept ==
  (HasRun /\ opName \in {"asEffect", "constant", "toVoid"})
  => LET k == Run(variant, lhs.arr, input, <<>>)
     IN /\ outcome.tr = k.tr
        /\ CountCalls(outcome.tr, "l") = CountCalls(k.tr, "l")
        /\ k.k # "right" => SameOutcome(outcome, k)
        /\ k.k = "right"
             => /\ outcome.k = "right"
                /\ opName = "asEffect" => outcome.v = input
                /\ opName = "toVoid" => outcome.v = Undefined
                /\ opName = "constant"
                     => \E c \in Val : arrow = constant(lhs.arr, c) /\ outcome.v = c

\* first() and second() pair the result of k with the original input.
PairedWithInput ==
  (HasRun /\ opName \in {"first", "second"})
  => LET k == Run(variant, lhs.arr, input, <<>>)
     IN /\ outcome.tr = k.tr
        /\ k.k # "right" => SameOutcome(outcome, k)
        /\ k.k = "right"
             => /\ outcome.k = "right"
                /\ outcome.v = IF opName = "first" THEN <<k.v, input>> ELSE <<input, k.v>>

EffectOfPureKept ==
  /\ opName = "asEffect" /\ variant = "MonadThrow"
  /\ lhs.ctor = "pure"
  /\ outcome.k = "right" /\ outcome.v = input
  /\ Run(variant, lhs.arr, input, <<>>).v # input
  /\ CountCalls(outcome.tr, "l") = 1

EffectFailed ==
  /\ opName = "asEffect" /\ variant = "MonadThrow"
  /\ lhs.ctor = "impure"
  /\ outcome.k = "left"
  /\ CountCalls(outcome.tr, "l") = 1

-----------------------------------------------------------------------------
(* Unsafe extraction.                                                       *)

\* The wrapped result the extraction of the current state was applied to.
Wrapped ==
  Run(IF variant = "unsafeRun" THEN "IOEither" ELSE "MonadThrow", arrow, input, <<>>)

\* C23: unsafeRun, unsafeRunIE and unsafeRunTE return (the task variant:
\* resolve with) b when the wrapped result is the success b, and throw (the
\* task variant: reject with) the carried error e itself when it is the
\* failure e; a failure never gives a value and a success never a throw.
UnsafeExtraction ==
  (variant \in {"unsafeRun", "unsafeRunIE", "unsafeRunTE"} /\ Wrapped.k # "throw")
  => /\ outcome.tr = Wrapped.tr
     /\ Wrapped.k = "right"
          => /\ outcome.k = IF variant = "unsafeRunTE" THEN "resolved" ELSE "ret"
             /\ outcome.v = Wrapped.v
     /\ Wrapped.k = "left"
          => /\ outcome.k = IF variant = "unsafeRunTE" THEN "rejected" ELSE "throw"
             /\ outcome.cls = "E"
             /\ outcome.e = Wrapped.e

UnsafeRaisedCarriedError ==
  /\ variant = "unsafeRunIE"
  /\ Wrapped.k = "left"
  /\ outcome.k = "throw" /\ outcome.e = Wrapped.e
  /\ HasCall(outcome.tr, "l")

UnsafeTaskRejected ==
  /\ variant = "unsafeRunTE"
  /\ outcome.k = "rejected" /\ outcome.e = "e1"

UnsafeReturnedValue ==
  /\ variant = "unsafeRun"
  /\ opName = "andThen"
  /\ outcome.k = "ret" /\ outcome.v = 1

-----------------------------------------------------------------------------
(* Runs side by side.                                                       *)

\* Every finished run returned what a run of the arrow alone on the same
\* input returns, with the same calls.
RunsAgree ==
  \A i \in Caller :
    callers[i].pc = "done"
    => LET lone == Run(callers[i].va, arrow, callers[i].in, <<>>)
       IN /\ SameOutcome(callers[i].res, lone)
          /\ callers[i].tr = lone.tr
          /\ lone.k = "right" => callers[i].res.v = lone.v

\* C24: runs of one arrow, a fused whileDo included, one after another or
\* interleaved from different callers with different inputs, each return
\* what a lone run on that input returns; and no step, the building of a
\* new arrow included, changes an operand arrow.
RunIndependence ==
  /\ []RunsAgree
  /\ [][lhs' = lhs /\ rhs' = rhs /\ cond' = cond]_vars

FusedRunsInterleaved ==
  /\ arrow.tag = "Impure"
  /\ callers["q"].pc = "done" /\ callers["q"].res.k = "right"
  /\ CountCalls(callers["q"].tr, "l") >= 1
  /\ callers["p"].pc = "body" /\ CountCalls(callers["p"].tr, "l") >= 1
  /\ callers["p"].in # callers["q"].in
  /\ callers["p"].a # callers["q"].a

UnfusedRunsInterleaved ==
  /\ arrow.tag = "Pure"
  /\ callers["p"].pc = "done" /\ callers["q"].pc = "done"
  /\ callers["p"].in # callers["q"].in
  /\ callers["p"].res.k = "right" /\ callers["q"].res.k = "left"

-----------------------------------------------------------------------------
(* The whileDo state machine: pc "cond" is Evaluating-Condition, "body" is *)
(* Body-Running and "done" is Terminated.                                   *)

\* The step taken calls the function `name` of caller i's run, on x.
Invokes(i, name, x) ==
  /\ Len(callers'[i].tr) > Len(callers[i].tr)
  /\ callers'[i].tr[Len(callers[i].tr) + 1] = <<name, "call", x>>

InvokesAny(i, name) == \E x \in Count : Invokes(i, name, x)

WhileDoStep(i) ==
  LET me == callers[i]
      c == Run(me.va, cond, me.a, <<>>)
      b == Run(me.va, lhs.arr, me.a, <<>>)
  IN /\ InvokesAny(i, "l")
          => /\ me.pc = "body"
             /\ Invokes(i, "l", me.a)
             /\ ~InvokesAny(i, "c")
             /\ me.tr[Len(me.tr)] = <<"c", "call", me.a>>
             /\ c.k = "right" /\ c.v
             /\ IF b.k = "right"
                THEN callers'[i].pc = "cond" /\ callers'[i].a = b.v
                ELSE callers'[i].pc = "done" /\ SameOutcome(callers'[i].res, [b EXCEPT !.tr = callers'[i].tr])
     /\ InvokesAny(i, "c")
          => /\ me.pc = "cond"
             /\ Invokes(i, "c", me.a)
             /\ ~InvokesAny(i, "l")
             /\ callers'[i].a = me.a
             /\ me.tr = <<>> => me.a = me.in
             /\ IF c.k = "right" /\ c.v
                THEN callers'[i].pc = "body"
                ELSE /\ callers'[i].pc = "done"
                     /\ IF c.k = "right"
                        THEN callers'[i].res.k = "right" /\ callers'[i].res.v = me.a
                        ELSE SameOutcome(callers'[i].res, [c EXCEPT !.tr = callers'[i].tr])
     /\ me.pc = "done"
          => \/ callers'[i] = me
             \/ callers'[i].pc = "cond" /\ callers'[i].tr = <<>>
     /\ (me.pc \in {"cond", "body"} /\ callers'[i] # me)
          => InvokesAny(i, IF me.pc = "cond" THEN "c" ELSE "l")

TerminatedOnFalseCond ==
  /\ callers["p"].pc = "done"
  /\ callers["p"].res.k = "right"
  /\ callers["p"].res.v # callers["p"].in
  /\ CountCalls(callers["p"].tr, "c") = CountCalls(callers["p"].tr, "l") + 1

-----------------------------------------------------------------------------
(* impure in the single-monad Kleisli.                                      *)

\* The message of a thrown value: a KleisliError is built by
\* super(String(error)).
Message(o) == IF o.cls = "KleisliIOError" THEN String(o.e) ELSE o.e

\* C25: in Kleisli, impure(catcher)(f).run(a) is M.of(f(a)) when f does not
\* raise; when f raises x and catcher(x) is defined, run(a) returns no
\* wrapped value: the KleisliError wrapper escapes it, with the string form
\* of catcher(x) as its message.
WrapperEscapesKleisli ==
  (variant = "Kleisli" /\ opName = "operand" /\ lhs.ctor = "impure")
  => LET f == lhs.arr.run_.fn
         catcher == lhs.arr.run_.catcher
         r == f.tbl[input]
     IN /\ r.k = "ret" => outcome = MOf(r.v, <<<<"l", "call", input>>>>)
        /\ (r.k = "throw" /\ catcher.c1[r.e].k = "val" /\ catcher.c2[r.e].k # "raise")
             => /\ outcome.k = "throw"
                /\ outcome.cls = "KleisliIOError"
                /\ Message(outcome) = String(catcher.c2[r.e].v)
                /\ catcher.c1 = catcher.c2 => Message(outcome) = String(catcher.c1[r.e].v)

IdCaughtFaultEscaped ==
  /\ variant = "Kleisli" /\ opName = "operand"
  /\ lhs.ctor = "impure" /\ lhs.arr.run_.catcher = id
  /\ outcome.k = "throw"
  /\ Message(outcome) = "Error: x1"

KleisliImpureReturned ==
  /\ variant = "Kleisli" /\ opName = "operand"
  /\ lhs.ctor = "impure"
  /\ outcome.k = "right" /\ outcome.v = 1

-----------------------------------------------------------------------------
(* Fusion closure.                                                          *)

\* C27: when every operand is Impure, the arrow returned by composeK, pipeK,
\* andThen, map, constant, switchK, join, zipWith, both, first, second,
\* asEffect, left, right, test, ifThenElse, ifThen and whileDo is Impure, at
\* any depth of nesting: no Pure or Compose arrow comes out of Impure
\* operands.
FusionClosure ==
  (isImpure(lhs.arr) /\ isImpure(rhs) /\ isImpure(cond) /\ arrow # None)
  => isImpure(arrow)

NestedFusedArrow ==
  /\ opName = "ifThenElse"
  /\ isImpure(arrow)
  /\ arrow.run_.t = "ite"
  /\ arrow.run_.cond.t = "while"
  /\ arrow.run_.cond.body.t = "catch"
  /\ Nesting(arrow.run_) = 2

-----------------------------------------------------------------------------
(* The catcher of impure.                                                   *)

CountCatches(tr, name, x) ==
  Cardinality({i \in 1..Len(tr) : tr[i] = <<name, "catch", x>>})

\* What the function built by impure throws or returns on the input.
LhsRaw == RawEval(lhs.arr.run_, input, <<>>)

\* The calls of the catcher: once on x when its answer is undefined, x being
\* thrown again unwrapped; twice on x when its first answer is defined, the
\* wrapper carrying the answer of the second call.
CatcherCalls ==
  (variant \in {"MonadThrow", "IOEither"} /\ opName = "operand"
     /\ lhs.ctor = "impure" /\ LhsEntry.k = "throw")
  => LET x == LhsEntry.e
         r1 == LhsCatcher.c1[x]
         r2 == LhsCatcher.c2[x]
     IN /\ CountCatches(outcome.tr, "l", x) >= 1
        /\ \A i \in 1..Len(outcome.tr) : outcome.tr[i][2] = "catch" => outcome.tr[i][3] = x
        /\ r1.k = "undef"
             => /\ CountCatches(outcome.tr, "l", x) = 1
                /\ LhsRaw.k = "throw" /\ LhsRaw.cls # "KleisliIOError" /\ LhsRaw.e = x
                /\ variant = "MonadThrow" => outcome.k = "throw" /\ outcome.e = x
        /\ r1.k = "val"
             => /\ CountCatches(outcome.tr, "l", x) = 2
                /\ r2.k # "raise"
                     => /\ LhsRaw.cls = "KleisliIOError" /\ LhsRaw.e = r2.v
                        /\ outcome.k = "left" /\ outcome.e = r2.v

\* C29: when f raises x the catcher is called on x; if it returns undefined,
\* x is thrown again unwrapped, so that no domain error carries undefined;
\* if it returns a defined value it is called a second time on x and the
\* domain error carries the value of the second call; the catcher runs twice
\* per classified fault and once per unclassified fault.
CatcherProtocol ==
  /\ CatcherCalls
  /\ (variant \in {"MonadThrow", "IOEither"} /\ opName = "operand"
        /\ lhs.ctor = "impure" /\ LhsRaw.k = "throw" /\ LhsRaw.cls = "KleisliIOError")
     => /\ outcome.k = "left"
        /\ outcome.e # CUndef.v

ClassifiedOnSecondCall ==
  /\ variant = "MonadThrow" /\ opName = "operand" /\ lhs.ctor = "impure"
  /\ LhsEntry.k = "throw"
  /\ LhsCatcher.c1[LhsEntry.e].k = "val" /\ LhsCatcher.c2[LhsEntry.e].k = "val"
  /\ LhsCatcher.c1[LhsEntry.e] # LhsCatcher.c2[LhsEntry.e]
  /\ outcome.k = "left" /\ outcome.e = LhsCatcher.c2[LhsEntry.e].v

-----------------------------------------------------------------------------
(* Associativity and unit of composition.                                   *)

\* f, then g on its result, then h on that, each by its own run.
RunInTurn(f, g, h, a) ==
  LET r1 == Run(variant, f, a, <<>>)
  IN IF r1.k # "right" THEN r1
     ELSE LET r2 == Run(variant, g, r1.v, r1.tr)
          IN IF r2.k # "right" THEN r2 ELSE Run(variant, h, r2.v, r2.tr)

SameResult(o1, o2) ==
  /\ SameOutcome(o1, o2)
  /\ o1.k = "right" => o1.v = o2.v

\* C30: for arrows f, g, h of any tags and every input,
\* composeK(h, composeK(g, f)) and composeK(composeK(h, g), f) give the same
\* result with the same calls in the same order, whichever of them fuses,
\* and composeK(identity(), f) and composeK(f, identity()) give the result
\* of f.
ComposeAssociativeWithUnit ==
  HasRun
  => /\ opName \in {"composeInner", "composeOuter"}
          => \A h \in ThirdOperands :
               arrow \in {composeK(h, composeK(rhs, lhs.arr)), composeK(composeK(h, rhs), lhs.arr)}
               => /\ SameResult(outcome, Run(variant, composeK(h, composeK(rhs, lhs.arr)), input, <<>>))
                  /\ SameResult(outcome, Run(variant, composeK(composeK(h, rhs), lhs.arr), input, <<>>))
                  /\ SameResult(outcome, RunInTurn(lhs.arr, rhs, h, input))
     /\ opName \in {"composeIdentity", "composeOnIdentity"}
          => SameResult(outcome, Run(variant, lhs.arr, input, <<>>))

OneGroupingFused ==
  /\ opName = "composeOuter" /\ variant = "MonadThrow"
  /\ arrow.tag = "Compose" /\ isImpure(arrow.g) /\ arrow.g.run_.t = "comp"
  /\ ~isImpure(lhs.arr)
  /\ outcome.k = "right"
  /\ HasCall(outcome.tr, "l") /\ HasCall(outcome.tr, "r") /\ HasCall(outcome.tr, "h")

ComposedWithIdentity ==
  /\ opName = "composeIdentity" /\ variant = "MonadThrow"
  /\ lhs.ctor = "pure" /\ arrow.tag = "Compose"
  /\ outcome.k = "right" /\ outcome.v # input

====
